---- MODULE Spec2Model ----
(***************************************************************************)
(* Channel Gateway of AionUi: pairing service, session registry, action    *)
(* router, streaming throttle and plugin manager, as state machines.       *)
(*                                                                         *)
(* Four specifications share this module; each one moves its own group of  *)
(* variables and leaves the others at their initial values:                *)
(*   SpecPairing   PairingService over the assistant_pairing_codes and     *)
(*                 assistant_users tables, with wall-clock time            *)
(*   SpecRouter    ActionExecutor.handleIncomingMessage and the session    *)
(*                 actions over SessionManager, with overlapping handlers  *)
(*   SpecThrottle  ActionExecutor.handleChatMessage: one chat stream       *)
(*   SpecPlugin    PluginManager.startPlugin / stopPlugin over BasePlugin  *)
(***************************************************************************)
EXTENDS Integers, Sequences, FiniteSets, TLC

VARIABLES
  now,           \* Date.now(), in model ticks
  pairingCodes,  \* table assistant_pairing_codes: code -> row
  users,         \* table assistant_users: set of rows [id, ident]
  ret,           \* what the last PairingService call returned
  lastGen        \* per identity: what its last generatePairingCode returned

varsPairing == <<now, pairingCodes, users, ret, lastGen>>

VARIABLES
  fk,            \* SQLite enforces FOREIGN KEY constraints in this build
  sessStore,     \* table assistant_sessions: set of rows
  sessCache,     \* SessionManager.activeSessions: userId -> session
  numConvs,      \* rows of table conversations (source 'telegram'): 1..numConvs
  handlers,      \* the handleIncomingMessage calls in progress
  unauthLog      \* what the calls dispatched unauthorized did

varsRouter == <<fk, sessStore, sessCache, numConvs, handlers, unauthLog>>

(***************************************************************************)
(* Bounds of the model.                                                    *)
(***************************************************************************)
NumCodes == 2      \* distinct pairing codes the random generator can draw
NumIdents == 1     \* distinct (platformUserId, platformType) identities
MaxTime == 2       \* the clock stops advancing at this tick

MaxHandlers == 2   \* handleIncomingMessage calls in progress at one time
MaxConvs == 2      \* conversations that can be created in one run

Codes == 1..NumCodes
Idents == 1..NumIdents
Persons == 1..(NumIdents + 1)   \* the identities when a second person writes
UserIds == 1..(NumIdents + 1)   \* ChannelUser ids
SessIds == 1..(NumIdents + 2)   \* session ids
Handlers == 1..MaxHandlers
\* conversationId of a session: 0 for none, a row of conversations, or the
\* uuid() of createSession, which is no row of conversations
UuidConv == MaxConvs + 1

(***************************************************************************)
(* Program constants.                                                      *)
(***************************************************************************)
maxAttempts == 10  \* generateUniqueCode: attempts before it throws
CODE_EXPIRY_MS == 1  \* PAIRING_CONFIG.CODE_EXPIRY_MS; one tick of the clock
                     \* is this long

(***************************************************************************)
(* Rows of assistant_pairing_codes.  requested_at is expiresAt minus the   *)
(* expiry period (both are set from one Date.now() in                      *)
(* generatePairingCode), so the row keeps expiresAt only.                  *)
(***************************************************************************)
NoRow == [ident |-> 0, expiresAt |-> 0, status |-> "absent"]

PairingStatus == {"pending", "approved", "rejected", "expired"}

HasRow(tbl, c) == tbl[c].status /= "absent"

\* AionUIDatabase.getPairingRequestByCode: the row, or NoRow for null
getPairingRequestByCode(tbl, c) == tbl[c]

\* AionUIDatabase.getPendingPairingRequests:
\*   WHERE status = 'pending' AND expires_at > now
getPendingPairingRequests(tbl, t) ==
  {c \in Codes : tbl[c].status = "pending" /\ tbl[c].expiresAt > t}

\* AionUIDatabase.updatePairingRequestStatus: UPDATE ... WHERE code = ?
updatePairingRequestStatus(tbl, c, st) ==
  IF HasRow(tbl, c) THEN [tbl EXCEPT ![c].status = st] ELSE tbl

\* AionUIDatabase.createPairingRequest: INSERT; code is the PRIMARY KEY, so
\* inserting an existing code fails and leaves the table as it was
createPairingRequestOk(tbl, c) == ~HasRow(tbl, c)

createPairingRequest(tbl, c, u, expiresAt) ==
  IF createPairingRequestOk(tbl, c)
  THEN [tbl EXCEPT ![c] = [ident |-> u, expiresAt |-> expiresAt, status |-> "pending"]]
  ELSE tbl

\* A variant of the DELETE that takes every row that is not pending and
\* every row whose expires_at is not in the future.
cleanupExpiredPairingRequests_Eager(tbl, t) ==
  [c \in Codes |->
     IF tbl[c].expiresAt <= t \/ tbl[c].status /= "pending" THEN NoRow ELSE tbl[c]]

\* AionUIDatabase.cleanupExpiredPairingRequests:
\*   DELETE ... WHERE expires_at < now OR status != 'pending'
cleanupExpiredPairingRequests(tbl, t) ==
  [c \in Codes |->
     IF HasRow(tbl, c) /\ (tbl[c].expiresAt < t \/ tbl[c].status /= "pending")
     THEN NoRow ELSE tbl[c]]

\* AionUIDatabase.getChannelUserByPlatform: the rows of the identity
getChannelUserByPlatform(usrs, u) == {r \in usrs : r.ident = u}

\* AionUIDatabase.createChannelUser: INSERT; id is the PRIMARY KEY and
\* (platform_user_id, platform_type) is UNIQUE
createChannelUserOk(usrs, id, u) ==
  \A r \in usrs : r.id /= id /\ r.ident /= u

createChannelUser(usrs, id, u) ==
  IF createChannelUserOk(usrs, id, u) THEN usrs \cup {[id |-> id, ident |-> u]} ELSE usrs

\* AionUIDatabase.deleteChannelUser
deleteChannelUser(usrs, id) == {r \in usrs : r.id /= id}

(***************************************************************************)
(* PairingService                                                          *)
(***************************************************************************)

\* PairingService.isUserAuthorized
isUserAuthorized(usrs, u) == getChannelUserByPlatform(usrs, u) /= {}

\* PairingService.getPendingRequestForUser: the codes find() can return.
\* The rows come ordered by requested_at DESC and find() takes the first
\* match, so it is a match with the greatest requested_at (rows that tie
\* come in an order SQLite does not fix).  The empty set stands for null.
getPendingRequestForUser(tbl, t, u) ==
  LET match == {c \in getPendingPairingRequests(tbl, t) :
                   /\ tbl[c].ident = u
                   /\ tbl[c].status = "pending"
                   /\ tbl[c].expiresAt > t}
  IN {c \in match : \A d \in match : tbl[d].expiresAt <= tbl[c].expiresAt}

\* PairingService.generateUniqueCode: what the loop can end with after
\* `attempts` collisions.  A drawn code is returned when it has no row, or
\* its row is not pending, or is expired; a draw of a pending, unexpired
\* code counts as a collision; 0 stands for the throw after maxAttempts
\* collisions.
RECURSIVE generateUniqueCode(_, _, _)
generateUniqueCode(tbl, t, attempts) ==
  IF attempts >= maxAttempts THEN {0}
  ELSE LET accepted == {c \in Codes :
                          \/ ~HasRow(tbl, c)
                          \/ tbl[c].status /= "pending"
                          \/ tbl[c].expiresAt < t}
       IN accepted \cup (IF accepted /= Codes
                         THEN generateUniqueCode(tbl, t, attempts + 1)
                         ELSE {})

\* Return values of the PairingService calls.
NoRet == [op |-> "none", arg |-> 0, success |-> FALSE, error |-> "",
          code |-> 0, expiresAt |-> 0, created |-> FALSE]

GenRet(op, u, okFlag, err, c, e, cr) ==
  [op |-> op, arg |-> u, success |-> okFlag, error |-> err,
   code |-> c, expiresAt |-> e, created |-> cr]

\* A variant that never reuses the pending request: always a new code.
generatePairingCode_AlwaysNew(tbl, t, u, first, drawn) ==
  IF drawn = 0
  THEN [tbl |-> tbl,
        ret |-> GenRet("generate", u, FALSE, "Failed to generate unique pairing code", 0, 0, FALSE)]
  ELSE IF ~createPairingRequestOk(tbl, drawn)
  THEN [tbl |-> tbl,
        ret |-> GenRet("generate", u, FALSE, "Failed to create pairing request", 0, 0, FALSE)]
  ELSE [tbl |-> createPairingRequest(tbl, drawn, u, t + CODE_EXPIRY_MS),
        ret |-> GenRet("generate", u, TRUE, "", drawn, t + CODE_EXPIRY_MS, TRUE)]

\* PairingService.generatePairingCode(platformUserId, platformType).
\* first: the row find() returned (0 when none); drawn: what
\* generateUniqueCode ended with (0 when it threw, or was not called).
generatePairingCode(tbl, t, u, first, drawn) ==
  IF first /= 0 /\ tbl[first].expiresAt > t
  THEN [tbl |-> tbl,
        ret |-> GenRet("generate", u, TRUE, "", first, tbl[first].expiresAt, FALSE)]
  ELSE IF drawn = 0
  THEN [tbl |-> tbl,
        ret |-> GenRet("generate", u, FALSE, "Failed to generate unique pairing code", 0, 0, FALSE)]
  ELSE IF ~createPairingRequestOk(tbl, drawn)
  THEN [tbl |-> tbl,
        ret |-> GenRet("generate", u, FALSE, "Failed to create pairing request", 0, 0, FALSE)]
  ELSE [tbl |-> createPairingRequest(tbl, drawn, u, t + CODE_EXPIRY_MS),
        ret |-> GenRet("generate", u, TRUE, "", drawn, t + CODE_EXPIRY_MS, TRUE)]

\* The choices generatePairingCode meets in table tbl at time t:
\* <<first, drawn>>, drawn being what generateUniqueCode would end with.
generateChoices(tbl, t, u) ==
  LET found == getPendingRequestForUser(tbl, t, u)
  IN (IF found /= {} THEN found ELSE {0}) \X generateUniqueCode(tbl, t, 0)

\* PairingService.refreshPairingCode, first half: every pending request of
\* the identity that getPendingPairingRequests returns is marked expired.
expirePendingOf(tbl, t, u) ==
  [c \in Codes |->
     IF c \in getPendingPairingRequests(tbl, t) /\ tbl[c].ident = u /\ tbl[c].status = "pending"
     THEN [tbl[c] EXCEPT !.status = "expired"]
     ELSE tbl[c]]

ApproveRet(c, okFlag, err) ==
  [op |-> "approve", arg |-> c, success |-> okFlag, error |-> err,
   code |-> 0, expiresAt |-> 0, created |-> FALSE]

AlreadyError(st) ==
  CASE st = "approved" -> "Pairing request already approved"
    [] st = "rejected" -> "Pairing request already rejected"
    [] st = "expired" -> "Pairing request already expired"
    [] OTHER -> "Pairing request already pending"

\* A variant without the expiry check.
approvePairing_NoExpiryCheck(tbl, usrs, t, c, newId) ==
  LET request == getPairingRequestByCode(tbl, c)
      existingUser == getChannelUserByPlatform(usrs, request.ident)
  IN IF ~HasRow(tbl, c)
     THEN [tbl |-> tbl, users |-> usrs, newUser |-> FALSE,
           ret |-> ApproveRet(c, FALSE, "Pairing request not found")]
     ELSE IF request.status /= "pending"
     THEN [tbl |-> tbl, users |-> usrs, newUser |-> FALSE,
           ret |-> ApproveRet(c, FALSE, AlreadyError(request.status))]
     ELSE IF existingUser /= {}
     THEN [tbl |-> updatePairingRequestStatus(tbl, c, "approved"), users |-> usrs,
           newUser |-> FALSE, ret |-> ApproveRet(c, TRUE, "")]
     ELSE IF ~createChannelUserOk(usrs, newId, request.ident)
     THEN [tbl |-> tbl, users |-> usrs, newUser |-> FALSE,
           ret |-> ApproveRet(c, FALSE, "UNIQUE constraint failed")]
     ELSE [tbl |-> updatePairingRequestStatus(tbl, c, "approved"),
           users |-> createChannelUser(usrs, newId, request.ident),
           newUser |-> TRUE, ret |-> ApproveRet(c, TRUE, "")]

\* A variant without the "already processed" check.
approvePairing_NoStatusCheck(tbl, usrs, t, c, newId) ==
  LET request == getPairingRequestByCode(tbl, c)
      existingUser == getChannelUserByPlatform(usrs, request.ident)
  IN IF ~HasRow(tbl, c)
     THEN [tbl |-> tbl, users |-> usrs, newUser |-> FALSE,
           ret |-> ApproveRet(c, FALSE, "Pairing request not found")]
     ELSE IF request.expiresAt < t
     THEN [tbl |-> updatePairingRequestStatus(tbl, c, "expired"), users |-> usrs,
           newUser |-> FALSE, ret |-> ApproveRet(c, FALSE, "Pairing code has expired")]
     ELSE IF existingUser /= {}
     THEN [tbl |-> updatePairingRequestStatus(tbl, c, "approved"), users |-> usrs,
           newUser |-> FALSE, ret |-> ApproveRet(c, TRUE, "")]
     ELSE IF ~createChannelUserOk(usrs, newId, request.ident)
     THEN [tbl |-> tbl, users |-> usrs, newUser |-> FALSE,
           ret |-> ApproveRet(c, FALSE, "UNIQUE constraint failed")]
     ELSE [tbl |-> updatePairingRequestStatus(tbl, c, "approved"),
           users |-> createChannelUser(usrs, newId, request.ident),
           newUser |-> TRUE, ret |-> ApproveRet(c, TRUE, "")]

\* PairingService.approvePairing(code).  newId: the id generated for a new
\* ChannelUser.  The checks run in the order of the code: found, expired
\* (which writes status 'expired' whatever the status was), pending.
approvePairing(tbl, usrs, t, c, newId) ==
  LET request == getPairingRequestByCode(tbl, c)
      existingUser == getChannelUserByPlatform(usrs, request.ident)
  IN IF ~HasRow(tbl, c)
     THEN [tbl |-> tbl, users |-> usrs, newUser |-> FALSE,
           ret |-> ApproveRet(c, FALSE, "Pairing request not found")]
     ELSE IF request.expiresAt < t
     THEN [tbl |-> updatePairingRequestStatus(tbl, c, "expired"), users |-> usrs,
           newUser |-> FALSE, ret |-> ApproveRet(c, FALSE, "Pairing code has expired")]
     ELSE IF request.status /= "pending"
     THEN [tbl |-> tbl, users |-> usrs, newUser |-> FALSE,
           ret |-> ApproveRet(c, FALSE, AlreadyError(request.status))]
     ELSE IF existingUser /= {}
     THEN [tbl |-> updatePairingRequestStatus(tbl, c, "approved"), users |-> usrs,
           newUser |-> FALSE, ret |-> ApproveRet(c, TRUE, "")]
     ELSE IF ~createChannelUserOk(usrs, newId, request.ident)
     THEN [tbl |-> tbl, users |-> usrs, newUser |-> FALSE,
           ret |-> ApproveRet(c, FALSE, "UNIQUE constraint failed")]
     ELSE [tbl |-> updatePairingRequestStatus(tbl, c, "approved"),
           users |-> createChannelUser(usrs, newId, request.ident),
           newUser |-> TRUE, ret |-> ApproveRet(c, TRUE, "")]

\* PairingService.rejectPairing(code): found, then status := 'rejected'
rejectPairing(tbl, c) ==
  IF ~HasRow(tbl, c)
  THEN [tbl |-> tbl,
        ret |-> [ApproveRet(c, FALSE, "Pairing request not found") EXCEPT !.op = "reject"]]
  ELSE [tbl |-> updatePairingRequestStatus(tbl, c, "rejected"),
        ret |-> [ApproveRet(c, TRUE, "") EXCEPT !.op = "reject"]]

\* PairingService.cleanupExpired, run by the cleanup interval
cleanupExpired(tbl, t) == cleanupExpiredPairingRequests(tbl, t)

\* approvePairing builds the id of a new ChannelUser from Date.now() and
\* random bytes: an id nothing carries.  The model takes the least such id
\* (0 when every id is in use; approvePairing is then not called).
freshUserIds(usrs) ==
  {i \in UserIds :
     /\ \A r \in usrs : r.id /= i
     /\ \A r \in sessStore : r.userId /= i
     /\ sessCache[i].id = 0
     /\ \A h \in Handlers : handlers[h].uid /= i}

newUserId(usrs) ==
  IF freshUserIds(usrs) = {} THEN 0
  ELSE CHOOSE i \in freshUserIds(usrs) : \A j \in freshUserIds(usrs) : i <= j

(***************************************************************************)
(* Table assistant_sessions and SessionManager.                            *)
(***************************************************************************)
NoSession == [id |-> 0, userId |-> 0, conv |-> 0, agent |-> "none"]

\* AionUIDatabase.upsertChannelSession: INSERT ... ON CONFLICT(id) DO
\* UPDATE.  With foreign keys enforced the statement fails, and the wrapper
\* returns success=false, when user_id is no row of assistant_users or
\* conversation_id is neither NULL nor a row of conversations.
upsertChannelSessionOk(usrs, nConvs, session) ==
  fk => /\ \E r \in usrs : r.id = session.userId
        /\ session.conv \in 0..nConvs

upsertChannelSession(store, usrs, nConvs, session) ==
  IF upsertChannelSessionOk(usrs, nConvs, session)
  THEN {r \in store : r.id /= session.id} \cup {session}
  ELSE store

\* AionUIDatabase.deleteChannelSession: DELETE ... WHERE id = ?
deleteChannelSession(store, id) == {r \in store : r.id /= id}

\* ON DELETE CASCADE of assistant_sessions.user_id
cascadeDeleteUser(store, id) ==
  IF fk THEN {r \in store : r.userId /= id} ELSE store

\* SessionManager.getSession: the cached session, NoSession for null
getSession(cache, uid) == cache[uid]

\* the id uuid() gives a new session: an id nothing carries
freshSessionIds ==
  {i \in SessIds : /\ \A r \in sessStore : r.id /= i
                   /\ \A u \in UserIds : sessCache[u].id /= i}

newSessionId == CHOOSE i \in freshSessionIds : \A j \in freshSessionIds : i <= j

\* A variant that leaves the existing session's row in the table.
createSessionWithConversation_NoDelete(store, cache, usrs, nConvs, uid, conv, agent, newId) ==
  LET session == [id |-> newId, userId |-> uid, conv |-> conv, agent |-> agent]
  IN [store |-> upsertChannelSession(store, usrs, nConvs, session),
      cache |-> [cache EXCEPT ![uid] = session]]

\* SessionManager.createSessionWithConversation(user, conversationId,
\* agentType); newId is the uuid() of the session
createSessionWithConversation(store, cache, usrs, nConvs, uid, conv, agent, newId) ==
  LET existingSession == cache[uid]
      cleared == IF existingSession.id /= 0
                 THEN deleteChannelSession(store, existingSession.id)
                 ELSE store
      session == [id |-> newId, userId |-> uid, conv |-> conv, agent |-> agent]
  IN [store |-> upsertChannelSession(cleared, usrs, nConvs, session),
      cache |-> [cache EXCEPT ![uid] = session]]

\* SessionManager.createSession(user, agentType): a conversation id of its
\* own making
createSession(store, cache, usrs, nConvs, uid, agent, newId) ==
  createSessionWithConversation(store, cache, usrs, nConvs, uid, UuidConv, agent, newId)

\* SessionManager.clearSession(userId)
clearSession(store, cache, uid) ==
  IF cache[uid].id = 0
  THEN [store |-> store, cache |-> cache]
  ELSE [store |-> deleteChannelSession(store, cache[uid].id),
        cache |-> [cache EXCEPT ![uid] = NoSession]]

\* SessionManager.updateSessionActivity(userId): the cached session is
\* written to the table again
updateSessionActivity(store, cache, usrs, nConvs, uid) ==
  IF cache[uid].id = 0 THEN store
  ELSE upsertChannelSession(store, usrs, nConvs, cache[uid])

(***************************************************************************)
(* SpecPairing: the calls of PairingService and of the management surface  *)
(* in any order, with the clock advancing between them.                    *)
(***************************************************************************)
\* ret keeps the outcome of the call just made, until the next step; the
\* code and expiry a generatePairingCode returned are kept per identity in
\* lastGen.
Brief(r) == [r EXCEPT !.code = 0, !.expiresAt = 0, !.created = FALSE]

NoGen == [code |-> 0, expiresAt |-> 0, created |-> FALSE]

InitPairing ==
  /\ now = 0
  /\ pairingCodes = [c \in Codes |-> NoRow]
  /\ users = {}
  /\ ret = NoRet
  /\ lastGen = [u \in Persons |-> NoGen]

\* generatePairingCode(u) called and returned
GeneratePairingCode(u) ==
  \E ch \in generateChoices(pairingCodes, now, u) :
    LET r == generatePairingCode(pairingCodes, now, u, ch[1], ch[2])
    IN /\ pairingCodes' = r.tbl
       /\ ret' = Brief(r.ret)
       /\ lastGen' = [lastGen EXCEPT ![u] =
                        IF r.ret.success
                        THEN [code |-> r.ret.code, expiresAt |-> r.ret.expiresAt,
                              created |-> r.ret.created]
                        ELSE NoGen]
       /\ UNCHANGED <<now, users>>

\* refreshPairingCode(u) called and returned
RefreshPairingCode(u) ==
  LET expired == expirePendingOf(pairingCodes, now, u)
  IN \E ch \in generateChoices(expired, now, u) :
       LET r == generatePairingCode(expired, now, u, ch[1], ch[2])
       IN /\ pairingCodes' = r.tbl
          /\ ret' = Brief([r.ret EXCEPT !.op = "refresh"])
          /\ lastGen' = [lastGen EXCEPT ![u] = NoGen]
          /\ UNCHANGED <<now, users>>

\* approvePairing(c) called and returned: what it does to the tables
ApprovePairingTables(c) ==
  LET r == approvePairing(pairingCodes, users, now, c, newUserId(users))
  IN /\ freshUserIds(users) /= {}
     /\ pairingCodes' = r.tbl
     /\ users' = r.users
     /\ lastGen' = IF HasRow(pairingCodes, c)
                   THEN [lastGen EXCEPT ![pairingCodes[c].ident] = NoGen]
                   ELSE lastGen
     /\ UNCHANGED now

\* approvePairing(c) called and returned
ApprovePairing(c) ==
  /\ ApprovePairingTables(c)
  /\ ret' = approvePairing(pairingCodes, users, now, c, newUserId(users)).ret

\* rejectPairing(c) called and returned
RejectPairing(c) ==
  LET r == rejectPairing(pairingCodes, c)
  IN /\ pairingCodes' = r.tbl
     /\ ret' = r.ret
     /\ lastGen' = IF HasRow(pairingCodes, c)
                   THEN [lastGen EXCEPT ![pairingCodes[c].ident] = NoGen]
                   ELSE lastGen
     /\ UNCHANGED <<now, users>>

\* the cleanup interval fires
CleanupTick ==
  /\ pairingCodes' = cleanupExpired(pairingCodes, now)
  /\ ret' = NoRet
  /\ UNCHANGED <<now, users, lastGen>>

\* channel.revokeUser provider: deleteChannelUser(userId), which cascades to
\* the user's rows of assistant_sessions; the SessionManager is not told
RevokeUser(id) ==
  /\ \E r \in users : r.id = id
  /\ users' = deleteChannelUser(users, id)
  /\ sessStore' = cascadeDeleteUser(sessStore, id)
  /\ ret' = NoRet
  /\ UNCHANGED <<now, pairingCodes, lastGen>>

\* the wall clock advances
Tick ==
  /\ now < MaxTime
  /\ now' = now + 1
  /\ ret' = NoRet
  /\ UNCHANGED <<pairingCodes, users, lastGen>>

(***************************************************************************)
(* ActionExecutor.handleChatMessage: one chat stream, from the moment the  *)
(* "Thinking..." message has been sent.  Stream events reach the callback  *)
(* through an event emitter, which does not wait for the promise of the    *)
(* previous callback; an edit or a send handed to the platform is in       *)
(* flight until the platform has applied it, and requests in flight at the *)
(* same time are applied in any order.                                     *)
(***************************************************************************)
VARIABLES
  clk,                 \* Date.now(), in ms
  hpc,                 \* where handleChatMessage stands
  lastUpdateTime,      \* let lastUpdateTime
  pendingUpdateTimer,  \* due time of the timer; 0 for null
  pendingMessage,      \* content stashed for the timer; 0 for null
  sentMessageIds,      \* const sentMessageIds
  lastMessageContent,  \* content of the last event; 0 for null
  evCount,             \* stream events received so far
  sends,               \* contents of the sendMessage calls in flight
  issued,              \* every editMessage call made, in order
  inflight,            \* indexes in issued of the edits not yet settled
  msgs,                \* the platform's messages: id -> what is displayed
  finalApplied,        \* the end-of-stream edit has been applied
  timers,              \* the runtime's timers: due times of the live ones,
                       \* and how many live ones clearTimeout has cancelled
  currentAt            \* per update event: the last of sentMessageIds when
                       \* the callback received it; 0 before

varsThrottle == <<clk, hpc, lastUpdateTime, pendingUpdateTimer, pendingMessage,
                  sentMessageIds, lastMessageContent, evCount, sends, issued,
                  inflight, msgs, finalApplied, timers, currentAt>>

UPDATE_THROTTLE_MS == 500

MaxEvents == 3   \* stream events in one stream
MaxTicks == 3    \* clock steps in one stream

ClockStep == UPDATE_THROTTLE_MS \div 2
\* Date.now() at the start of the stream: far from 0, the first value of
\* lastUpdateTime
StartTime == 2 * UPDATE_THROTTLE_MS
MaxClock == StartTime + MaxTicks * ClockStep

thinkingMsgId == 1
MsgIds == 1..(MaxEvents + 1)

NoMsg == [content |-> -1, controls |-> FALSE]

Last(q) == q[Len(q)]

\* A variant that never throttles.
throttleElapsed_Always(t, last) == TRUE

\* now - lastUpdateTime >= UPDATE_THROTTLE_MS
throttleElapsed(t, last) == t - last >= UPDATE_THROTTLE_MS

\* A call of context.editMessage(target, content): recorded and in flight
editMessage(target, content, kind) ==
  /\ issued' = Append(issued, [target |-> target, content |-> content,
                               at |-> clk, kind |-> kind])
  /\ inflight' = inflight \cup {Len(issued) + 1}

\* doEditMessage(msg); kind tells the caller: "immediate" or "deferred"
doEditMessage(msg, kind) ==
  /\ lastUpdateTime' = clk
  /\ editMessage(Last(sentMessageIds), msg, kind)

\* A variant of clearTimeout that cancels nothing.
clearTimeout_Leaks(t, handle) == t

\* clearTimeout(handle), under `if (pendingUpdateTimer)`: a live timer of
\* that handle is cancelled
clearTimeout(t, handle) ==
  IF handle /= 0 /\ \E i \in 1..Len(t.live) : t.live[i] = handle
  THEN LET i == CHOOSE j \in 1..Len(t.live) : t.live[j] = handle
       IN [live |-> SubSeq(t.live, 1, i - 1) \o SubSeq(t.live, i + 1, Len(t.live)),
           cleared |-> t.cleared + 1]
  ELSE t

\* setTimeout(callback, delay), due at the given time
setTimeout(t, due) == [t EXCEPT !.live = Append(t.live, due)]

InitThrottle ==
  /\ clk = StartTime
  /\ hpc = "stream"
  /\ lastUpdateTime = 0
  /\ pendingUpdateTimer = 0
  /\ pendingMessage = 0
  /\ sentMessageIds = <<thinkingMsgId>>
  /\ lastMessageContent = 0
  /\ evCount = 0
  /\ sends = {}
  /\ issued = <<>>
  /\ inflight = {}
  /\ msgs = [m \in MsgIds |-> IF m = thinkingMsgId
                              THEN [content |-> 0, controls |-> FALSE]
                              ELSE NoMsg]
  /\ finalApplied = FALSE
  /\ timers = [live |-> <<>>, cleared |-> 0]
  /\ currentAt = [e \in 1..MaxEvents |-> 0]

\* the stream callback with isInsert = false
OnUpdate ==
  /\ hpc = "stream" /\ evCount < MaxEvents
  /\ evCount' = evCount + 1
  /\ lastMessageContent' = evCount + 1
  /\ pendingMessage' = evCount + 1
  /\ currentAt' = [currentAt EXCEPT ![evCount + 1] = Last(sentMessageIds)]
  /\ IF throttleElapsed(clk, lastUpdateTime)
     THEN /\ pendingUpdateTimer' = 0
          /\ timers' = clearTimeout(timers, pendingUpdateTimer)
          /\ doEditMessage(evCount + 1, "immediate")
     ELSE /\ pendingUpdateTimer' = clk + (UPDATE_THROTTLE_MS - (clk - lastUpdateTime))
          /\ timers' = setTimeout(clearTimeout(timers, pendingUpdateTimer),
                                  clk + (UPDATE_THROTTLE_MS - (clk - lastUpdateTime)))
          /\ UNCHANGED <<lastUpdateTime, issued, inflight>>
  /\ UNCHANGED <<clk, hpc, sentMessageIds, sends, msgs, finalApplied>>

\* the stream callback with isInsert = true, up to its await sendMessage
OnInsert ==
  /\ hpc = "stream" /\ evCount < MaxEvents
  /\ evCount' = evCount + 1
  /\ lastMessageContent' = evCount + 1
  /\ sends' = sends \cup {evCount + 1}
  /\ UNCHANGED <<clk, hpc, lastUpdateTime, pendingUpdateTimer, pendingMessage,
                 sentMessageIds, issued, inflight, msgs, finalApplied, timers, currentAt>>

\* sendMessage resolves: the platform shows a new message, its id is pushed
InsertSent(c) ==
  /\ c \in sends
  /\ sends' = sends \ {c}
  /\ LET newMsgId == Len(sentMessageIds) + 1
     IN /\ sentMessageIds' = Append(sentMessageIds, newMsgId)
        /\ msgs' = [msgs EXCEPT ![newMsgId] = [content |-> c, controls |-> FALSE]]
  /\ UNCHANGED <<clk, hpc, lastUpdateTime, pendingUpdateTimer, pendingMessage,
                 lastMessageContent, evCount, issued, inflight, finalApplied, timers, currentAt>>

\* sendMessage rejects: the error is logged and ignored
InsertFailed(c) ==
  /\ c \in sends
  /\ sends' = sends \ {c}
  /\ UNCHANGED <<clk, hpc, lastUpdateTime, pendingUpdateTimer, pendingMessage,
                 sentMessageIds, lastMessageContent, evCount, issued, inflight,
                 msgs, finalApplied, timers, currentAt>>

\* the setTimeout callback runs, at its due time or later
TimerFires ==
  /\ \E i \in 1..Len(timers.live) :
       /\ clk >= timers.live[i]
       /\ timers' = [timers EXCEPT !.live = SubSeq(timers.live, 1, i - 1)
                                             \o SubSeq(timers.live, i + 1, Len(timers.live))]
  /\ pendingUpdateTimer' = 0
  /\ IF pendingMessage /= 0
     THEN /\ doEditMessage(pendingMessage, "deferred")
          /\ pendingMessage' = 0
     ELSE UNCHANGED <<lastUpdateTime, issued, inflight, pendingMessage>>
  /\ UNCHANGED <<clk, hpc, sentMessageIds, lastMessageContent, evCount, sends,
                 msgs, finalApplied, currentAt>>

\* messageService.sendMessage resolves: the timer is cleared and the final
\* edit, with the response controls, is made on the last message id
StreamCompletes ==
  /\ hpc = "stream"
  /\ pendingUpdateTimer' = 0
  /\ timers' = clearTimeout(timers, pendingUpdateTimer)
  /\ editMessage(Last(sentMessageIds), lastMessageContent, "final")
  /\ hpc' = "final"
  /\ UNCHANGED <<clk, lastUpdateTime, pendingMessage, sentMessageIds,
                 lastMessageContent, evCount, sends, msgs, finalApplied, currentAt>>

\* messageService.sendMessage rejects: the catch block edits the thinking
\* message into the failure message
StreamFails ==
  /\ hpc = "stream"
  /\ editMessage(thinkingMsgId, 0, "error")
  /\ hpc' = "failed"
  /\ UNCHANGED <<clk, lastUpdateTime, pendingUpdateTimer, pendingMessage,
                 sentMessageIds, lastMessageContent, evCount, sends, msgs,
                 finalApplied, timers, currentAt>>

\* the handler's position once the edit issued[i] has settled
Settled(i) == IF issued[i].kind \in {"final", "error"} THEN "done" ELSE hpc

\* the platform applies an edit in flight
EditApplied(i) ==
  /\ i \in inflight
  /\ inflight' = inflight \ {i}
  /\ msgs' = [msgs EXCEPT ![issued[i].target] =
                [content |-> issued[i].content,
                 controls |-> issued[i].kind \in {"final", "error"}]]
  /\ finalApplied' = (finalApplied \/ issued[i].kind = "final")
  /\ hpc' = Settled(i)
  /\ UNCHANGED <<clk, lastUpdateTime, pendingUpdateTimer, pendingMessage,
                 sentMessageIds, lastMessageContent, evCount, sends, issued, timers, currentAt>>

\* the platform refuses an edit in flight; the handler ignores the error
EditFailed(i) ==
  /\ i \in inflight
  /\ inflight' = inflight \ {i}
  /\ hpc' = Settled(i)
  /\ UNCHANGED <<clk, lastUpdateTime, pendingUpdateTimer, pendingMessage,
                 sentMessageIds, lastMessageContent, evCount, sends, issued,
                 msgs, finalApplied, timers, currentAt>>

\* time passes
ClockTick ==
  /\ clk < MaxClock
  /\ clk' = clk + ClockStep
  /\ UNCHANGED <<hpc, lastUpdateTime, pendingUpdateTimer, pendingMessage,
                 sentMessageIds, lastMessageContent, evCount, sends, issued,
                 inflight, msgs, finalApplied, timers, currentAt>>

(***************************************************************************)
(* PluginManager.startPlugin and stopPlugin for one plugin id, over        *)
(* BasePlugin's status and TelegramPlugin's long-polling loop.  Each call  *)
(* runs from one await to the next in one step; calls overlap at their     *)
(* awaits.                                                                 *)
(***************************************************************************)
VARIABLES
  plugins,       \* PluginManager.plugins at the id: an instance, or 0
  inst,          \* per plugin instance: _status, errorMessage, isPollingActive
  calls,         \* the startPlugin / stopPlugin calls made so far, in order
  pluginErrors,  \* PluginManager.pluginErrors at the id; NoError for none
  dbStatus,      \* assistant_plugins.status of the id
  events         \* statuses of the pluginStatusChanged events emitted

varsPlugin == <<plugins, inst, calls, pluginErrors, dbStatus, events>>

MaxCalls == 3   \* startPlugin and stopPlugin calls in one run

Instances == 1..MaxCalls

\* errorMessage is "" for null
NoInstance == [status |-> "created", polling |-> FALSE, error |-> ""]

\* an error text of the cache: `Plugin ${step} failed: ${message}`
NoError == [step |-> "", message |-> ""]

\* messages of the errors onInitialize and onStart throw
InitializeErrors == {"Telegram bot token is required"}

StartErrors == {"getMe failed", "Polling start timeout after 30s"}

InitPlugin ==
  /\ plugins = 0
  /\ inst = [i \in Instances |-> NoInstance]
  /\ calls = <<>>
  /\ pluginErrors = NoError
  /\ dbStatus = "created"
  /\ events = <<>>

\* BasePlugin.setStatus(status, error): the error message is replaced, by
\* null when no error is given
setStatus(rec, status, error) == [rec EXCEPT !.status = status, !.error = error]

\* PluginManager.buildPluginStatus(config): the status and the error of the
\* status query, over the map m, the instances ins, the error cache and
\* the persisted status
buildPluginStatus(m, ins, errs, persisted) ==
  [connected |-> m /= 0 /\ ins[m].status = "running",
   status |-> IF m /= 0 THEN ins[m].status ELSE persisted,
   error |-> IF m /= 0 /\ ins[m].error /= "" THEN ins[m].error
             ELSE IF errs = NoError THEN "" ELSE errs.message]

\* instance of the next `new Constructor()`
newInstance == Cardinality({k \in 1..Len(calls) : calls[k].kind = "start" /\ calls[k].inst /= 0}) + 1

\* A variant of the test that never finds the id in the map.
pluginsHas_Never(m) == FALSE

\* this.plugins.has(id)
pluginsHas(m) == m /= 0

\* startPlugin, to its first await.  A plugin already in the map makes the
\* call return; otherwise an instance is constructed and
\* BasePlugin.initialize awaits onInitialize.
StartPlugin ==
  /\ Len(calls) < MaxCalls
  /\ pluginErrors' = NoError
  /\ IF pluginsHas(plugins)
     THEN /\ calls' = Append(calls, [kind |-> "start", pc |-> "done", inst |-> 0])
          /\ UNCHANGED inst
     ELSE /\ calls' = Append(calls, [kind |-> "start", pc |-> "onInitialize",
                                     inst |-> newInstance])
          /\ inst' = [inst EXCEPT ![newInstance] = setStatus(@, "initializing", "")]
  /\ UNCHANGED <<plugins, dbStatus, events>>

\* onInitialize resolves: status ready; the handlers are set;
\* BasePlugin.start sets status starting and onStart awaits getMe
Initialized(k) ==
  /\ k \in 1..Len(calls) /\ calls[k].pc = "onInitialize"
  /\ inst' = [inst EXCEPT ![calls[k].inst] = setStatus(@, "starting", "")]
  /\ calls' = [calls EXCEPT ![k].pc = "getMe"]
  /\ UNCHANGED <<plugins, pluginErrors, dbStatus, events>>

\* onInitialize rejects with message msg: status error; startPlugin caches
\* the error text, writes status error, emits the event and throws
InitializeFails(k, msg) ==
  /\ k \in 1..Len(calls) /\ calls[k].pc = "onInitialize"
  /\ inst' = [inst EXCEPT ![calls[k].inst] = setStatus(@, "error", msg)]
  /\ calls' = [calls EXCEPT ![k].pc = "failed"]
  /\ pluginErrors' = [step |-> "initialization", message |-> msg]
  /\ dbStatus' = "error"
  /\ events' = Append(events, "error")
  /\ UNCHANGED plugins

\* getMe resolves: startPolling calls bot.start() and awaits its onStart
GotMe(k) ==
  /\ k \in 1..Len(calls) /\ calls[k].pc = "getMe"
  /\ calls' = [calls EXCEPT ![k].pc = "startPolling"]
  /\ UNCHANGED <<plugins, inst, pluginErrors, dbStatus, events>>

\* grammY's onStart callback: the receive loop runs; status running;
\* startPlugin stores the instance in the map, writes status running and
\* emits the event
PollingStarted(k) ==
  /\ k \in 1..Len(calls) /\ calls[k].pc = "startPolling"
  /\ inst' = [inst EXCEPT ![calls[k].inst] =
                [setStatus(@, "running", "") EXCEPT !.polling = TRUE]]
  /\ plugins' = calls[k].inst
  /\ calls' = [calls EXCEPT ![k].pc = "done"]
  /\ dbStatus' = "running"
  /\ events' = Append(events, buildPluginStatus(plugins', inst', pluginErrors,
                                                "running").status)
  /\ UNCHANGED pluginErrors

\* getMe or bot.start() rejects, or the 30 s start timeout fires, with
\* message msg: status error; startPlugin caches the error text, writes
\* status error, emits the event and throws
StartFails(k, msg) ==
  /\ k \in 1..Len(calls) /\ calls[k].pc \in {"getMe", "startPolling"}
  /\ inst' = [inst EXCEPT ![calls[k].inst] = setStatus(@, "error", msg)]
  /\ calls' = [calls EXCEPT ![k].pc = "failed"]
  /\ pluginErrors' = [step |-> "start", message |-> msg]
  /\ dbStatus' = "error"
  /\ events' = Append(events, "error")
  /\ UNCHANGED plugins

\* stopPlugin, to its await of plugin.stop().  BasePlugin.stop returns at
\* once unless the status is running or error; otherwise status stopping,
\* and stopPolling awaits bot.stop() when the loop is active.
StopPlugin ==
  /\ Len(calls) < MaxCalls
  /\ IF ~pluginsHas(plugins)
     THEN /\ calls' = Append(calls, [kind |-> "stop", pc |-> "done", inst |-> 0])
          /\ UNCHANGED inst
     ELSE IF inst[plugins].status \notin {"running", "error"}
     THEN /\ calls' = Append(calls, [kind |-> "stop", pc |-> "stopReturned",
                                     inst |-> plugins])
          /\ UNCHANGED inst
     ELSE IF inst[plugins].polling
     THEN /\ calls' = Append(calls, [kind |-> "stop", pc |-> "botStop",
                                     inst |-> plugins])
          /\ inst' = [inst EXCEPT ![plugins] = setStatus(@, "stopping", "")]
     ELSE /\ calls' = Append(calls, [kind |-> "stop", pc |-> "stopReturned",
                                     inst |-> plugins])
          /\ inst' = [inst EXCEPT ![plugins] = setStatus(@, "stopped", "")]
  /\ UNCHANGED <<plugins, pluginErrors, dbStatus, events>>

\* bot.stop() resolves: the loop has ended; status stopped; stopPlugin
\* deletes the id from the map
PollingStopped(k) ==
  /\ k \in 1..Len(calls) /\ calls[k].pc = "botStop"
  /\ inst' = [inst EXCEPT ![calls[k].inst] =
                [setStatus(@, "stopped", "") EXCEPT !.polling = FALSE]]
  /\ plugins' = 0
  /\ calls' = [calls EXCEPT ![k].pc = "done"]
  /\ dbStatus' = "stopped"
  /\ events' = Append(events, buildPluginStatus(plugins', inst', pluginErrors,
                                                "stopped").status)
  /\ UNCHANGED pluginErrors

\* plugin.stop() had nothing to wait for: stopPlugin deletes the id
StopReturned(k) ==
  /\ k \in 1..Len(calls) /\ calls[k].pc = "stopReturned"
  /\ plugins' = 0
  /\ calls' = [calls EXCEPT ![k].pc = "done"]
  /\ dbStatus' = "stopped"
  /\ events' = Append(events, buildPluginStatus(plugins', inst, pluginErrors,
                                                "stopped").status)
  /\ UNCHANGED <<inst, pluginErrors>>

\* The receive loop of the running plugin of the map has failed more than
\* maxReconnectAttempts times: handlePollingError calls setError and then
\* the plugin's own stop(), which ends in status stopped.  The Plugin
\* Manager is not called.
GivesUp ==
  /\ pluginsHas(plugins)
  /\ inst[plugins].status = "running"
  /\ inst' = [inst EXCEPT ![plugins] =
                [setStatus(@, "stopped", "") EXCEPT !.polling = FALSE]]
  /\ UNCHANGED <<plugins, calls, pluginErrors, dbStatus, events>>

(***************************************************************************)
(* One TelegramPlugin instance: BasePlugin.initialize, start and stop,     *)
(* called in any order and at any moment, over the long-polling loop of    *)
(* grammY and the reconnection of handlePollingError.  A call runs from    *)
(* one await to the next in one step; every step changes the status at     *)
(* most once.                                                              *)
(***************************************************************************)
VARIABLES
  plugin,    \* the instance: _status, errorMessage, bot (0 for null),
             \* isPollingActive, reconnectAttempts
  grammy,    \* per Bot object: where its bot.start() stands
  tasks,     \* the calls of initialize, start, stop and handlePollingError
  stopDone   \* a stop() that found the plugin running or in error has
             \* resolved, and start() has not begun since

varsConnector == <<plugin, grammy, tasks, stopDone>>

MaxTasks == 4   \* calls in one run

maxReconnectAttempts == 10

Bots == 1..MaxTasks

InitConnector ==
  /\ plugin = [status |-> "created", error |-> "", bot |-> 0, polling |-> FALSE,
               reconnectAttempts |-> 0]
  /\ grammy = [b \in Bots |-> "idle"]
  /\ tasks = <<>>
  /\ stopDone = FALSE

\* a Bot object for the next `new Bot(token)`
newBot == Cardinality({k \in 1..Len(tasks) : tasks[k].kind = "initialize"}) + 1

Task(kind, pc, b) == [kind |-> kind, pc |-> pc, bot |-> b]

AtPc(k, kind, pc) ==
  k \in 1..Len(tasks) /\ tasks[k].kind = kind /\ tasks[k].pc = pc

\* initialize(config), to the await of onInitialize, which throws without a
\* token and creates the Bot with one
Initialize(hasToken) ==
  /\ Len(tasks) < MaxTasks
  /\ plugin' = [setStatus(plugin, "initializing", "") EXCEPT
                  !.bot = IF hasToken THEN newBot ELSE @]
  /\ tasks' = Append(tasks, Task("initialize",
                                 IF hasToken THEN "onInitialize" ELSE "threw", 0))
  /\ UNCHANGED <<grammy, stopDone>>

\* initialize: the await of onInitialize settles
InitializeSettles(k) ==
  /\ k \in 1..Len(tasks) /\ tasks[k].kind = "initialize"
  /\ tasks[k].pc \in {"onInitialize", "threw"}
  /\ plugin' = IF tasks[k].pc = "onInitialize"
               THEN setStatus(plugin, "ready", "")
               ELSE setStatus(plugin, "error", "Telegram bot token is required")
  /\ tasks' = [tasks EXCEPT ![k].pc = IF tasks[k].pc = "onInitialize"
                                      THEN "resolved" ELSE "rejected"]
  /\ UNCHANGED <<grammy, stopDone>>

\* A variant of the test that lets start() run in every status.
startAllowed_Always(status) == TRUE

\* start(): this._status !== 'ready' && this._status !== 'stopped' throws
startAllowed(status) == status \in {"ready", "stopped"}

\* stop(): this._status !== 'running' && this._status !== 'error' returns
stopAllowed(status) == status \in {"running", "error"}

\* start(), to the await of getMe; onStart throws when there is no Bot
Start ==
  /\ Len(tasks) < MaxTasks
  /\ IF ~startAllowed(plugin.status)
     THEN /\ tasks' = Append(tasks, Task("start", "illegal", 0))
          /\ UNCHANGED <<plugin, stopDone>>
     ELSE /\ plugin' = setStatus(plugin, "starting", "")
          /\ tasks' = Append(tasks, Task("start",
                                         IF plugin.bot = 0 THEN "threw" ELSE "getMe",
                                         plugin.bot))
          /\ stopDone' = FALSE
  /\ UNCHANGED grammy

\* start: onStart has thrown 'Bot not initialized'
OnStartThrows(k) ==
  /\ AtPc(k, "start", "threw")
  /\ plugin' = setStatus(plugin, "error", "Bot not initialized")
  /\ tasks' = [tasks EXCEPT ![k].pc = "rejected"]
  /\ UNCHANGED <<grammy, stopDone>>

\* startPolling(), to its await of the onStart callback, for the task k:
\* it returns at once without a Bot or with the loop marked active,
\* otherwise it calls bot.start()
startPolling(k) ==
  IF plugin.bot = 0 \/ plugin.polling
  THEN /\ tasks' = [tasks EXCEPT ![k].pc = "polling"]
       /\ UNCHANGED grammy
  ELSE /\ tasks' = [tasks EXCEPT ![k].pc = "botStart", ![k].bot = plugin.bot]
       /\ grammy' = [grammy EXCEPT ![plugin.bot] = "starting"]

\* start: getMe resolves; startPolling
GetMeReturns(k) ==
  /\ AtPc(k, "start", "getMe")
  /\ plugin.bot /= 0 => grammy[plugin.bot] = "idle"
  /\ startPolling(k)
  /\ UNCHANGED <<plugin, stopDone>>

\* start: getMe rejects
GetMeFails(k) ==
  /\ AtPc(k, "start", "getMe")
  /\ plugin' = setStatus(plugin, "error", "getMe failed")
  /\ tasks' = [tasks EXCEPT ![k].pc = "rejected"]
  /\ UNCHANGED <<grammy, stopDone>>

\* grammY calls onStart: the receive loop of the Bot runs
BotOnStart(k) ==
  /\ k \in 1..Len(tasks) /\ tasks[k].pc = "botStart"
  /\ grammy' = [grammy EXCEPT ![tasks[k].bot] = "polling"]
  /\ plugin' = [plugin EXCEPT !.polling = TRUE]
  /\ tasks' = [tasks EXCEPT ![k].pc = "polling"]
  /\ UNCHANGED stopDone

\* startPolling has returned to onStart, or to handlePollingError:
\* reconnectAttempts = 0, and start() sets the status running
PollingReturns(k) ==
  /\ k \in 1..Len(tasks) /\ tasks[k].pc = "polling"
  /\ plugin' = IF tasks[k].kind = "start"
               THEN [setStatus(plugin, "running", "") EXCEPT !.reconnectAttempts = 0]
               ELSE [plugin EXCEPT !.reconnectAttempts = 0]
  /\ tasks' = [tasks EXCEPT ![k].pc = "resolved"]
  /\ UNCHANGED <<grammy, stopDone>>

\* handlePollingError(error) as the task k of ts, to its first await:
\* nothing unless running; past maxReconnectAttempts setError and stop(),
\* whose stopPolling finds the loop marked inactive; otherwise the backoff
\* timer.  The caller has set isPollingActive = false.
handlePollingError(k, ts) ==
  IF plugin.status /= "running"
  THEN /\ tasks' = [ts EXCEPT ![k] = Task("handlePollingError", "resolved", 0)]
       /\ plugin' = [plugin EXCEPT !.polling = FALSE]
  ELSE IF plugin.reconnectAttempts + 1 > maxReconnectAttempts
  THEN /\ tasks' = [ts EXCEPT ![k] = Task("handlePollingError", "onStop", 0)]
       /\ plugin' = [setStatus(plugin, "stopping", "") EXCEPT
                       !.polling = FALSE,
                       !.reconnectAttempts = plugin.reconnectAttempts + 1]
  ELSE /\ tasks' = [ts EXCEPT ![k] = Task("handlePollingError", "backoff", 0)]
       /\ plugin' = [plugin EXCEPT !.polling = FALSE,
                                   !.reconnectAttempts = plugin.reconnectAttempts + 1]

\* bot.start() rejects before onStart: start() fails, a reconnection counts
\* one more failure
BotStartRejects(k) ==
  /\ k \in 1..Len(tasks) /\ tasks[k].pc = "botStart"
  /\ grammy' = [grammy EXCEPT ![tasks[k].bot] = "idle"]
  /\ IF tasks[k].kind = "start"
     THEN /\ plugin' = [setStatus(plugin, "error", "bot.start failed")
                          EXCEPT !.polling = FALSE]
          /\ tasks' = [tasks EXCEPT ![k].pc = "rejected"]
     ELSE handlePollingError(k, tasks)
  /\ UNCHANGED stopDone

\* the receive loop of Bot b fails: bot.start() rejects after onStart
PollingFails(b) ==
  /\ grammy[b] = "polling"
  /\ Len(tasks) < MaxTasks
  /\ grammy' = [grammy EXCEPT ![b] = "idle"]
  /\ handlePollingError(Len(tasks) + 1, Append(tasks, Task("handlePollingError", "", 0)))
  /\ UNCHANGED stopDone

\* handlePollingError: the backoff timer fires; startPolling when running
BackoffElapsed(k) ==
  /\ AtPc(k, "handlePollingError", "backoff")
  /\ IF plugin.status = "running"
     THEN /\ plugin.bot /= 0 => grammy[plugin.bot] = "idle"
          /\ startPolling(k)
     ELSE /\ tasks' = [tasks EXCEPT ![k].pc = "resolved"]
          /\ UNCHANGED grammy
  /\ UNCHANGED <<plugin, stopDone>>

\* stop(), to the await of bot.stop() in stopPolling, which returns at once
\* without a Bot or with the loop marked inactive
Stop ==
  /\ Len(tasks) < MaxTasks
  /\ IF ~stopAllowed(plugin.status)
     THEN /\ tasks' = Append(tasks, Task("stop", "returned", 0))
          /\ UNCHANGED <<plugin, grammy>>
     ELSE /\ plugin' = setStatus(plugin, "stopping", "")
          /\ IF plugin.bot = 0 \/ ~plugin.polling
             THEN /\ tasks' = Append(tasks, Task("stop", "onStop", 0))
                  /\ UNCHANGED grammy
             ELSE /\ tasks' = Append(tasks, Task("stop", "botStop", plugin.bot))
                  /\ grammy' = [grammy EXCEPT ![plugin.bot] =
                                  IF @ = "polling" THEN "stopping" ELSE @]
  /\ UNCHANGED stopDone

\* bot.stop() settles: the loop of the Bot has ended; onStop clears the
\* Bot; status stopped
BotStopSettles(k) ==
  /\ AtPc(k, "stop", "botStop")
  /\ grammy' = [grammy EXCEPT ![tasks[k].bot] = IF @ = "stopping" THEN "idle" ELSE @]
  /\ plugin' = [setStatus(plugin, "stopped", "") EXCEPT
                  !.polling = FALSE, !.bot = 0, !.reconnectAttempts = 0]
  /\ tasks' = [tasks EXCEPT ![k].pc = "resolved"]
  /\ stopDone' = TRUE

\* stopPolling had nothing to stop: onStop clears the Bot; status stopped
OnStopReturns(k) ==
  /\ k \in 1..Len(tasks) /\ tasks[k].pc = "onStop"
  /\ plugin' = [setStatus(plugin, "stopped", "") EXCEPT
                  !.bot = 0, !.reconnectAttempts = 0]
  /\ tasks' = [tasks EXCEPT ![k].pc = IF tasks[k].kind = "stop" THEN "resolved"
                                      ELSE "gaveUp"]
  /\ stopDone' = TRUE
  /\ UNCHANGED grammy

(***************************************************************************)
(* The receive loop of a running connector and the message handler it      *)
(* starts for each update: TelegramPlugin.handleTextMessage and the catch  *)
(* blocks of ActionExecutor.handleIncomingMessage and handleChatMessage.   *)
(* grammY takes the next update when the middleware of the last one has    *)
(* settled.                                                                *)
(***************************************************************************)
VARIABLES
  loopWaits,    \* the invocation the middleware of the loop awaits, or 0
  invocations   \* the calls of the message handler, in the order started

varsDispatch == <<loopWaits, invocations>>

MaxUpdates == 3   \* updates received in one run

Senders == {"A", "B"}

HandlerSettled == {"resolved", "rejected"}

InitDispatch == loopWaits = 0 /\ invocations = <<>>

\* A variant of handleTextMessage that awaits this.messageHandler(message).
forward_Awaits(k) == k

\* handleTextMessage: void this.messageHandler(message).then().catch(),
\* nothing of the invocation k is awaited
forward(k) == 0

\* the loop delivers the next update, sent by u; handleTextMessage starts
\* the handler
ReceiveUpdate(u) ==
  /\ Len(invocations) < MaxUpdates
  /\ loopWaits /= 0 => invocations[loopWaits].pc \in HandlerSettled
  /\ invocations' = Append(invocations, [user |-> u, pc |-> "try", notified |-> FALSE])
  /\ loopWaits' = forward(Len(invocations) + 1)

InvocationAt(k, pc) == k \in 1..Len(invocations) /\ invocations[k].pc = pc

\* handleIncomingMessage: the try block completes
HandlerReturns(k) ==
  /\ InvocationAt(k, "try")
  /\ invocations' = [invocations EXCEPT ![k].pc = "resolved"]
  /\ UNCHANGED loopWaits

\* an exception in the try block of handleChatMessage (inChat) or elsewhere
\* in the try block of handleIncomingMessage: the catch block awaits the
\* edit, or the send, of the failure message
HandlerThrows(k, inChat) ==
  /\ InvocationAt(k, "try")
  /\ invocations' = [invocations EXCEPT ![k].pc = IF inChat THEN "chatCatch" ELSE "catch"]
  /\ UNCHANGED loopWaits

\* handleChatMessage, catch: context.editMessage of the failure message
\* settles; its rejection is thrown to the catch of handleIncomingMessage
ChatCatchSettles(k, sent) ==
  /\ InvocationAt(k, "chatCatch")
  /\ invocations' = [invocations EXCEPT ![k].pc = IF sent THEN "resolved" ELSE "catch",
                                        ![k].notified = sent]
  /\ UNCHANGED loopWaits

\* handleIncomingMessage, catch: context.sendMessage of the failure message
\* settles; its rejection rejects the handler, and the connector logs it
CatchSettles(k, sent) ==
  /\ InvocationAt(k, "catch")
  /\ invocations' = [invocations EXCEPT ![k].pc = IF sent THEN "resolved" ELSE "rejected",
                                        ![k].notified = sent]
  /\ UNCHANGED loopWaits

(***************************************************************************)
(* ChannelManager: initialize with loadEnabledPlugins, and shutdown, one   *)
(* call at a time, over the stored plugin configs, the registry of the     *)
(* PluginManager and the sweep timers of the PairingService instances.     *)
(* PluginManager.startPlugin and stopPlugin are one step each here.        *)
(***************************************************************************)
VARIABLES
  initialized,  \* ChannelManager.initialized
  components,   \* 0 when pluginManager, sessionManager, pairingService and
                \* actionExecutor are null, else the number of the set built
  cfgs,         \* the stored plugin configs: enabled and status
  registry,     \* PluginManager.plugins: per id "none", or the status of
                \* the plugin in the map
  sweeps,       \* the PairingService instances whose setInterval is active:
                \* the number of a set of components, 0 for the singleton
                \* of getPairingService()
  call,         \* the call of initialize or shutdown in progress
  lastCall,     \* the last call that completed past its first test
  built         \* the sets of components built so far

varsManager ==
  <<initialized, components, cfgs, registry, sweeps, call, lastCall, built>>

NumPlugins == 2   \* stored plugin configs

MaxBuilds == 2    \* sets of components built in one run

PluginIds == 1..NumPlugins

NoCall == [kind |-> "none", pc |-> "", todo |-> {}, attempted |-> {}, failed |-> {}]

InitManager(flags) ==
  /\ initialized = FALSE
  /\ components = 0
  /\ cfgs \in [PluginIds -> [enabled : flags, status : {"created"}]]
  /\ registry = [p \in PluginIds |-> "none"]
  /\ sweeps = {}
  /\ call = NoCall
  /\ lastCall = "none"
  /\ built = 0

\* initialize(), to the await of loadEnabledPlugins: new PairingService(),
\* whose constructor starts its sweep, and the other components
ManagerInitialize ==
  /\ call = NoCall
  /\ ~initialized
  /\ built < MaxBuilds
  /\ built' = built + 1
  /\ components' = built + 1
  /\ sweeps' = sweeps \cup {built + 1}
  /\ registry' = [p \in PluginIds |-> "none"]
  /\ call' = [NoCall EXCEPT !.kind = "initialize", !.pc = "loadEnabledPlugins",
                            !.todo = {p \in PluginIds : cfgs[p].enabled}]
  /\ UNCHANGED <<initialized, cfgs, lastCall>>

\* A variant of loadEnabledPlugins without the try around startPlugin: the
\* first failure ends the loop.
afterStartFailure_Abort(todo, p) == {}

\* loadEnabledPlugins, catch: the loop goes on with the plugins after p
afterStartFailure(todo, p) == todo \ {p}

\* loadEnabledPlugins: await this.startPlugin(plugin) for the next enabled
\* plugin settles; on a failure the stored status becomes error
LoadPlugin(ok) ==
  /\ call.kind = "initialize" /\ call.todo /= {}
  /\ LET p == CHOOSE q \in call.todo : \A r \in call.todo : q <= r
     IN IF ok
        THEN /\ registry' = [registry EXCEPT ![p] = "running"]
             /\ cfgs' = [cfgs EXCEPT ![p].status = "running"]
             /\ call' = [call EXCEPT !.todo = @ \ {p}, !.attempted = @ \cup {p}]
        ELSE /\ cfgs' = [cfgs EXCEPT ![p].status = "error"]
             /\ call' = [call EXCEPT !.todo = afterStartFailure(@, p),
                                     !.attempted = @ \cup {p},
                                     !.failed = @ \cup {p}]
             /\ UNCHANGED registry
  /\ UNCHANGED <<initialized, components, sweeps, lastCall, built>>

\* initialize: loadEnabledPlugins has returned; this.initialized = true
InitializeCompletes ==
  /\ call.kind = "initialize" /\ call.todo = {}
  /\ initialized' = TRUE
  /\ call' = NoCall
  /\ lastCall' = "initialize"
  /\ UNCHANGED <<components, cfgs, registry, sweeps, built>>

\* handlePairingShow for a message of a running plugin: getPairingService()
\* creates the singleton PairingService on its first call
GetPairingService ==
  /\ \E p \in PluginIds : registry[p] = "running"
  /\ 0 \notin sweeps
  /\ sweeps' = sweeps \cup {0}
  /\ UNCHANGED <<initialized, components, cfgs, registry, call, lastCall, built>>

\* shutdown(), to the await of stopAll
ManagerShutdown ==
  /\ call = NoCall
  /\ initialized
  /\ call' = [NoCall EXCEPT !.kind = "shutdown", !.pc = "stopAll"]
  /\ UNCHANGED <<initialized, components, cfgs, registry, sweeps, lastCall, built>>

\* A variant of stopAll with Promise.all: a stopPlugin that rejects makes
\* stopAll reject, and shutdown goes to its catch.
afterStopAll_Rejects(failed) == IF failed = {} THEN "release" ELSE "catch"

\* stopAll: await Promise.allSettled(stopPromises) resolves whatever the
\* stopPlugin calls of failed did; shutdown goes on to the release
afterStopAll(failed) == "release"

\* shutdown: Promise.allSettled of the stopPlugin calls settles; the
\* plugins of stopped have stopped, the stop() of the others has thrown;
\* then this.pairingService.stop(), to the await of the release of the
\* agent resources
StopAllSettles(stopped) ==
  /\ call.kind = "shutdown" /\ call.pc = "stopAll"
  /\ stopped \subseteq {p \in PluginIds : registry[p] /= "none"}
  /\ registry' = [p \in PluginIds |->
                    IF p \in stopped THEN "none"
                    ELSE IF registry[p] = "none" THEN "none" ELSE "error"]
  /\ cfgs' = [p \in PluginIds |->
                IF p \in stopped THEN [cfgs[p] EXCEPT !.status = "stopped"] ELSE cfgs[p]]
  /\ sweeps' = sweeps \ {components}
  /\ call' = [call EXCEPT !.pc =
                afterStopAll({p \in PluginIds : registry[p] /= "none"} \ stopped)]
  /\ UNCHANGED <<initialized, components, lastCall, built>>

\* shutdown: getChannelMessageService().shutdown() settles; when it
\* resolves the components are set to null and initialized to false, when
\* it rejects the catch only logs
ReleaseSettles(ok) ==
  /\ call.kind = "shutdown" /\ call.pc = "release"
  /\ IF ok
     THEN components' = 0 /\ initialized' = FALSE
     ELSE UNCHANGED <<components, initialized>>
  /\ call' = NoCall
  /\ lastCall' = "shutdown"
  /\ UNCHANGED <<cfgs, registry, sweeps, built>>

(***************************************************************************)
(* ActionExecutor.handleIncomingMessage with the session.new and           *)
(* agent.select handlers.  A call runs from one await to the next in one   *)
(* step; MaxHandlers calls overlap at their awaits.  The plugin of the     *)
(* message's platform is taken to be running.  A call keeps the locals its *)
(* remaining steps read.  The type of the message is read by the /start    *)
(* test and by the routing; a call that awaits in between has it drawn at  *)
(* the routing.  unauthLog collects what the calls whose sender was not    *)
(* authorized have done.                                                   *)
(***************************************************************************)
MessageKinds == {"start", "text", "session.new", "agent.select", "action", "unsupported"}

AgentParams(kind) ==
  IF kind = "agent.select" THEN {"gemini", "acp", "invalid"} ELSE {"none"}

IdleHandler ==
  [pc |-> "idle", ident |-> 0, uid |-> 0, agent |-> "none", auth |-> FALSE,
   conv |-> 0]

InitRouter(fks) ==
  /\ fk \in fks
  /\ sessStore = {}
  /\ sessCache = [u \in UserIds |-> NoSession]
  /\ numConvs = 0
  /\ handlers = [h \in Handlers |-> IdleHandler]
  /\ unauthLog = {}

\* The call in state rec has done the things in effects
Did(rec, effects) ==
  unauthLog' = IF rec.auth THEN unauthLog ELSE unauthLog \cup effects

\* The call h returns
Return(h) == handlers' = [handlers EXCEPT ![h] = IdleHandler]

\* A variant that sends only /start to the pairing-show handler.
showsPairing_StartOnly(kind, auth) == kind = "start"

\* content.type === 'command' && content.text === '/start', or !isAuthorized
showsPairing(kind, auth) == kind = "start" \/ ~auth

\* The routing of handleIncomingMessage for the call h in state rec and a
\* message of type kind, over the session tables store and cache, up to the
\* first await of the branch taken; the call has done the things in effects
\* before.
Route(h, rec, kind, agent, store, cache, effects) ==
  LET existingSession == getSession(cache, rec.uid)
  IN CASE kind = "text" ->
            \* handleChatMessage: updateSessionActivity, then the stream
            /\ sessStore' = updateSessionActivity(store, cache, users, numConvs, rec.uid)
            /\ sessCache' = cache
            /\ Return(h)
            /\ Did(rec, effects \cup {"toAgent"})
       [] kind = "session.new" ->
            \* handleSessionNew: awaits clearContext when a session exists
            /\ sessStore' = store
            /\ sessCache' = cache
            /\ handlers' = [handlers EXCEPT ![h] =
                 [rec EXCEPT !.conv = 0,
                             !.pc = IF existingSession.id /= 0 THEN "snClear"
                                    ELSE "snConv"]]
            /\ Did(rec, effects \cup {"session.new"})
       [] kind = "agent.select" ->
            \* handleAgentSelect
            IF agent = "invalid" \/ existingSession.agent = agent
            THEN /\ sessStore' = store
                 /\ sessCache' = cache
                 /\ Return(h)
                 /\ Did(rec, effects \cup {"agent.select"})
            ELSE IF existingSession.id /= 0
            THEN /\ sessStore' = store
                 /\ sessCache' = cache
                 /\ handlers' = [handlers EXCEPT ![h] =
                      [rec EXCEPT !.conv = 0, !.pc = "asClear", !.agent = agent]]
                 /\ Did(rec, effects \cup {"agent.select"})
            ELSE LET r == createSession(store, cache, users, numConvs, rec.uid,
                                        agent, newSessionId)
                 IN /\ sessStore' = r.store
                    /\ sessCache' = r.cache
                    /\ Return(h)
                    /\ Did(rec, effects \cup {"agent.select", "createSession"})
       [] kind \in {"action", "pairing.refresh"} ->
            \* executeAction of another registered action; handlePairingRefresh
            \* answers an authorized user "You are already paired"
            /\ sessStore' = store
            /\ sessCache' = cache
            /\ Return(h)
            /\ Did(rec, effects \cup {"action"})
       [] OTHER ->
            \* "This message type is not supported"
            /\ sessStore' = store
            /\ sessCache' = cache
            /\ Return(h)
            /\ Did(rec, effects \cup {"unsupported"})

\* handleIncomingMessage is called with a message of identity u, to its
\* first await
Dispatch(h, u, kind, agent) ==
  /\ handlers[h].pc = "idle"
  /\ LET isAuthorized == isUserAuthorized(users, u)
         rec == [IdleHandler EXCEPT !.auth = isAuthorized]
         found == getChannelUserByPlatform(users, u)
     IN IF showsPairing(kind, isAuthorized)
        THEN \* handlePairingShow: "Authorized", or await generatePairingCode
             /\ IF isUserAuthorized(users, u)
                THEN Return(h)
                ELSE handlers' = [handlers EXCEPT ![h] =
                       [rec EXCEPT !.ident = u, !.pc = "pairingShow"]]
             /\ Did(rec, {"pairing.show"})
             /\ UNCHANGED <<sessStore, sessCache>>
        ELSE IF found = {}
        THEN \* "User data error"
             /\ Return(h)
             /\ Did(rec, {"userDataError"})
             /\ UNCHANGED <<sessStore, sessCache>>
        ELSE LET channelUser == CHOOSE r \in found : TRUE
                 session == getSession(sessCache, channelUser.id)
                 rec2 == [rec EXCEPT !.uid = channelUser.id]
             IN IF session.id = 0 \/ session.conv = 0
                THEN /\ handlers' = [handlers EXCEPT ![h] =
                          [rec2 EXCEPT !.pc = "routerConv"]]
                     /\ UNCHANGED <<sessStore, sessCache, unauthLog>>
                ELSE Route(h, rec2, kind, agent, sessStore, sessCache, {})
  /\ UNCHANGED <<fk, numConvs>>

\* handlePairingShow: generatePairingCode returns
PairingShowReturns(h) ==
  /\ handlers[h].pc = "pairingShow"
  /\ \E ch \in generateChoices(pairingCodes, now, handlers[h].ident) :
       pairingCodes' = generatePairingCode(pairingCodes, now, handlers[h].ident,
                                           ch[1], ch[2]).tbl
  /\ Return(h)
  /\ UNCHANGED <<fk, sessStore, sessCache, numConvs, unauthLog>>

\* getTelegramDefaultModel has returned;
\* ConversationService.getOrCreateTelegramConversation takes the latest
\* conversation of source 'telegram', or creates one, which can fail
RouterConversation(h, okFlag) ==
  /\ handlers[h].pc = "routerConv"
  /\ IF numConvs > 0
     THEN /\ handlers' = [handlers EXCEPT ![h].pc = "routerCreate",
                                          ![h].conv = numConvs]
          /\ UNCHANGED numConvs
     ELSE IF okFlag
     THEN /\ numConvs' = 1
          /\ handlers' = [handlers EXCEPT ![h].pc = "routerCreate", ![h].conv = 1]
     ELSE /\ Return(h)
          /\ UNCHANGED numConvs
  /\ UNCHANGED <<fk, sessStore, sessCache, unauthLog>>

\* the router's createSessionWithConversation, then the routing of the
\* message
RouterCreate(h, kind, agent) ==
  /\ handlers[h].pc = "routerCreate"
  /\ freshSessionIds /= {}
  /\ LET r == createSessionWithConversation(sessStore, sessCache, users, numConvs,
                handlers[h].uid, handlers[h].conv, "gemini", newSessionId)
     IN Route(h, handlers[h], kind, agent, r.store, r.cache, {"createSession"})
  /\ UNCHANGED <<fk, numConvs>>

\* handleSessionNew: clearContext has returned; clearSession
SessionNewCleared(h) ==
  /\ handlers[h].pc = "snClear"
  /\ LET r == clearSession(sessStore, sessCache, handlers[h].uid)
     IN sessStore' = r.store /\ sessCache' = r.cache
  /\ handlers' = [handlers EXCEPT ![h].pc = "snConv"]
  /\ UNCHANGED <<fk, numConvs, unauthLog>>

\* handleSessionNew: ConversationService.createGeminiConversation returns a
\* new conversation, or fails
SessionNewConversation(h, okFlag) ==
  /\ handlers[h].pc = "snConv"
  /\ IF okFlag /\ numConvs < MaxConvs
     THEN /\ numConvs' = numConvs + 1
          /\ handlers' = [handlers EXCEPT ![h].pc = "snCreate",
                                          ![h].conv = numConvs + 1]
     ELSE /\ Return(h)
          /\ UNCHANGED numConvs
  /\ UNCHANGED <<fk, sessStore, sessCache, unauthLog>>

\* handleSessionNew: createSessionWithConversation
SessionNewCreate(h) ==
  /\ handlers[h].pc = "snCreate"
  /\ freshSessionIds /= {}
  /\ LET r == createSessionWithConversation(sessStore, sessCache, users, numConvs,
                handlers[h].uid, handlers[h].conv, "gemini", newSessionId)
     IN sessStore' = r.store /\ sessCache' = r.cache
  /\ Return(h)
  /\ Did(handlers[h], {"createSession"})
  /\ UNCHANGED <<fk, numConvs>>

\* handleAgentSelect: clearContext has returned; clearSession, createSession
AgentSelectCleared(h) ==
  /\ handlers[h].pc = "asClear"
  /\ freshSessionIds /= {}
  /\ LET c == clearSession(sessStore, sessCache, handlers[h].uid)
         r == createSession(c.store, c.cache, users, numConvs, handlers[h].uid,
                            handlers[h].agent, newSessionId)
     IN sessStore' = r.store /\ sessCache' = r.cache
  /\ Return(h)
  /\ Did(handlers[h], {"createSession"})
  /\ UNCHANGED <<fk, numConvs>>

\* ChannelManager.cleanupConversation(c) on an initialized manager:
\* SessionManager.clearSessionByConversationId removes the first session of
\* activeSessions bound to c, from the table and from the cache, and the
\* agent is asked to clear the context of that session.  The order of the
\* Map is the order in which the users got their first entry; any of the
\* sessions bound to c can be the first.
CleanupConversation(c) ==
  /\ initialized
  /\ LET bound == {u \in UserIds : sessCache[u].id /= 0 /\ sessCache[u].conv = c}
     IN IF bound = {}
        THEN UNCHANGED <<sessStore, sessCache>>
        ELSE \E u \in bound :
               LET r == clearSession(sessStore, sessCache, u)
               IN sessStore' = r.store /\ sessCache' = r.cache
  /\ UNCHANGED <<fk, numConvs, handlers, unauthLog>>

\* ---------------------------------------------------------------------
\* PairingService.generatePairingCode as the calls that overlap: the call
\* runs to `await this.generateUniqueCode()` in one step (the look for the
\* pending request of the identity and the draw of the code are made
\* without an await in between), and from there to its end in another.
\* ---------------------------------------------------------------------
VARIABLES genCalls

varsOverlap == <<genCalls>>

MaxGenCalls == 2

GenCallIds == 1..MaxGenCalls

NoGenCall == [pc |-> "idle", ident |-> 0, code |-> 0]

InitOverlap == genCalls = [k \in GenCallIds |-> NoGenCall]

\* generatePairingCode(u) is called: it returns the pending request it
\* finds, or throws with generateUniqueCode, or awaits with the code drawn
GenerateStarts(k, u) ==
  /\ genCalls[k].pc = "idle"
  /\ \E ch \in generateChoices(pairingCodes, now, u) :
       IF (ch[1] /= 0 /\ pairingCodes[ch[1]].expiresAt > now) \/ ch[2] = 0
       THEN UNCHANGED genCalls
       ELSE genCalls' = [genCalls EXCEPT ![k] =
                           [pc |-> "awaitCode", ident |-> u, code |-> ch[2]]]
  /\ UNCHANGED <<now, pairingCodes, users, ret, lastGen>>

\* the call resumes after the await: Date.now(), createPairingRequest, and
\* the return or the throw
GenerateResumes(k) ==
  /\ genCalls[k].pc = "awaitCode"
  /\ pairingCodes' = generatePairingCode(pairingCodes, now, genCalls[k].ident,
                                         0, genCalls[k].code).tbl
  /\ genCalls' = [genCalls EXCEPT ![k] = NoGenCall]
  /\ UNCHANGED <<now, users, ret, lastGen>>

\* ---------------------------------------------------------------------
\* ChannelManager.initialize as the calls that overlap, every stored plugin
\* being enabled.  A call runs from one await to the next in one step: from
\* its test of this.initialized through the construction of the components
\* to the await inside the first PluginManager.startPlugin, and from one
\* startPlugin of loadEnabledPlugins to the next.  Each set of components
\* has its PluginManager, with a map of its own, and its PairingService,
\* whose sweep timer runs from the construction on.
\* ---------------------------------------------------------------------
VARIABLES gateway, initCalls, receiveLoops

varsTwice == <<gateway, initCalls, receiveLoops>>

MaxInitCalls == 2

InitCallIds == 1..MaxInitCalls

ComponentSets == 1..MaxInitCalls

NoInitCall == [pc |-> "idle", todo |-> {}, plugin |-> 0, pm |-> 0]

InitTwice ==
  /\ gateway = [initialized |-> FALSE, pluginManager |-> 0, built |-> 0,
                plugins |-> [m \in ComponentSets |-> {}]]
  /\ initCalls = [k \in InitCallIds |-> NoInitCall]
  /\ receiveLoops = {}

\* loadEnabledPlugins, from one await to the next, for the call record c
\* over the gateway g: the loop is over and initialized is set, or
\* this.pluginManager.startPlugin is called for the next plugin, which
\* returns at once when the id is in the map of that PluginManager
loadEnabledPlugins(g, c) ==
  IF c.todo = {}
  THEN [g |-> [g EXCEPT !.initialized = TRUE],
        c |-> [NoInitCall EXCEPT !.pc = "done"]]
  ELSE LET q == CHOOSE x \in c.todo : \A y \in c.todo : x <= y
       IN [g |-> g,
           c |-> IF q \in g.plugins[g.pluginManager]
                 THEN [pc |-> "loop", todo |-> c.todo \ {q}, plugin |-> 0, pm |-> 0]
                 ELSE [pc |-> "startPlugin", todo |-> c.todo \ {q}, plugin |-> q,
                       pm |-> g.pluginManager]]

\* initialize() is called
InitializeCalled(k) ==
  /\ initCalls[k].pc = "idle"
  /\ IF gateway.initialized
     THEN /\ initCalls' = [initCalls EXCEPT ![k].pc = "done"]
          /\ UNCHANGED gateway
     ELSE LET g == [gateway EXCEPT !.built = @ + 1, !.pluginManager = gateway.built + 1]
              r == loadEnabledPlugins(g, [NoInitCall EXCEPT !.todo = PluginIds])
          IN /\ gateway' = r.g
             /\ initCalls' = [initCalls EXCEPT ![k] = r.c]
  /\ UNCHANGED receiveLoops

\* PluginManager.startPlugin settles for the call k: when the start has
\* succeeded the plugin receives and its id is in the map of the
\* PluginManager that was called; then the loop of loadEnabledPlugins goes on
StartPluginSettles(k, ok) ==
  /\ initCalls[k].pc = "startPlugin"
  /\ LET c == initCalls[k]
         g == IF ok
              THEN [gateway EXCEPT !.plugins[c.pm] = @ \cup {c.plugin}]
              ELSE gateway
         r == loadEnabledPlugins(g, c)
     IN /\ gateway' = r.g
        /\ initCalls' = [initCalls EXCEPT ![k] = r.c]
        /\ receiveLoops' = IF ok
                           THEN receiveLoops \cup {[pm |-> c.pm, plugin |-> c.plugin, by |-> k]}
                           ELSE receiveLoops

\* the call k resumes after a startPlugin that had returned at once
LoopResumes(k) ==
  /\ initCalls[k].pc = "loop"
  /\ LET r == loadEnabledPlugins(gateway, initCalls[k])
     IN /\ gateway' = r.g
        /\ initCalls' = [initCalls EXCEPT ![k] = r.c]
  /\ UNCHANGED receiveLoops

\* ---------------------------------------------------------------------
\* Tool confirmations: TelegramPlugin.handleCallbackQuery for the callback
\* data "confirm:{callId}:{value}" and the confirm handler the channel
\* manager gives the plugins. The plugin records the sender, calls the
\* handler without awaiting it, and removes the buttons of the message
\* once the promise of the handler is fulfilled. The handler is fulfilled
\* on every path: its returns are plain returns and the confirm of the
\* agent is inside try/catch.
\* ---------------------------------------------------------------------
VARIABLES activeUsers, confirmed, confirming, markupEdits

varsConfirm == <<activeUsers, confirmed, confirming, markupEdits>>

MaxCallbacks == 2

CallIds == 1..2

InitConfirm ==
  /\ activeUsers = {}
  /\ confirmed = <<>>
  /\ confirming = 0
  /\ markupEdits = 0

\* the confirm handler up to its await: the conversation the confirmation
\* is forwarded to, 0 when the handler returns without calling the agent
confirmHandler(usrs, cache, nConvs, u) ==
  LET found == getChannelUserByPlatform(usrs, u)
  IN IF found = {} THEN 0
     ELSE getSession(cache, (CHOOSE r \in found : TRUE).id).conv

\* handleCallbackQuery for a confirm callback of identity u; wellFormed
\* is parts.length >= 3
HandleCallbackQuery(u, callId, wellFormed) ==
  /\ Len(confirmed) + markupEdits + confirming < MaxCallbacks
  /\ activeUsers' = activeUsers \cup {u}
  /\ LET conv == confirmHandler(users, sessCache, numConvs, u)
     IN IF ~wellFormed
        THEN UNCHANGED <<confirmed, confirming, markupEdits>>
        ELSE IF conv = 0
        THEN \* the handler has returned: .then removes the buttons
             /\ markupEdits' = markupEdits + 1
             /\ UNCHANGED <<confirmed, confirming>>
        ELSE /\ confirmed' = Append(confirmed, [conv |-> conv, callId |-> callId])
             /\ confirming' = confirming + 1
             /\ UNCHANGED markupEdits

\* the confirm of the agent resolves or throws: the handler is fulfilled
\* and .then removes the buttons
ConfirmSettles ==
  /\ confirming > 0
  /\ confirming' = confirming - 1
  /\ markupEdits' = markupEdits + 1
  /\ UNCHANGED <<activeUsers, confirmed>>

\* ---------------------------------------------------------------------
\* ChannelEventBus: the in-process bus between the agent tasks and the
\* channel message service. The class extends the EventEmitter of Node:
\* on() appends to the listener array, off() removes the most recently
\* added entry that is the given function, emit() calls the entries of a
\* copy of the array, one after the other, before it returns. Every
\* subscriber passes a function of its own, and a listener returns normally.
\* ---------------------------------------------------------------------
VARIABLES busListeners, subs, emitting, published, deliveries

varsBus == <<busListeners, subs, emitting, published, deliveries>>

MaxListeners == 3
MaxEmits == 2

ListenerIds == 1..MaxListeners

NotEmitting == [active |-> FALSE, queue |-> <<>>]

InitBus ==
  /\ busListeners = <<>>
  /\ subs = [g \in ListenerIds |-> [reg |-> -1, unsub |-> -1]]
  /\ emitting = NotEmitting
  /\ published = <<>>
  /\ deliveries = <<>>

\* A variant of off() that removes nothing.
off_Keeps(ls, h) == ls

\* EventEmitter.off(event, handler), as called by the unsubscribe handle.
off(ls, h) ==
  IF \E i \in 1..Len(ls) : ls[i] = h
  THEN LET i == CHOOSE j \in 1..Len(ls) :
                  ls[j] = h /\ \A m \in (j + 1)..Len(ls) : ls[m] /= h
       IN SubSeq(ls, 1, i - 1) \o SubSeq(ls, i + 1, Len(ls))
  ELSE ls

\* onAgentMessage(handler): this.on(...), and the handle is returned. The
\* handler is a function that was not subscribed before.
OnAgentMessage ==
  /\ \E g \in ListenerIds :
       /\ subs[g].reg = -1
       /\ \A m \in ListenerIds : m < g => subs[m].reg /= -1
       /\ busListeners' = Append(busListeners, g)
       /\ subs' = [subs EXCEPT ![g].reg = Len(published)]
  /\ UNCHANGED <<emitting, published, deliveries>>

\* The handle returned by onAgentMessage is called: this.off(...). It may be
\* called from a listener while an event is being delivered.
Unsubscribe(g) ==
  /\ subs[g].reg /= -1
  /\ busListeners' = off(busListeners, g)
  /\ subs' = [subs EXCEPT ![g].unsub =
                IF subs[g].unsub = -1 THEN Len(published) ELSE subs[g].unsub]
  /\ UNCHANGED <<emitting, published, deliveries>>

\* emitAgentMessage(conversationId, data): the event gets the conversation
\* id, emit() copies the listener array.
EmitAgentMessage(c) ==
  /\ ~emitting.active
  /\ Len(published) < MaxEmits
  /\ published' = Append(published, c)
  /\ emitting' = [active |-> TRUE, queue |-> busListeners]
  /\ UNCHANGED <<busListeners, subs, deliveries>>

\* emit() calls the next listener of its copy.
Deliver ==
  /\ emitting.active
  /\ emitting.queue /= <<>>
  /\ deliveries' = Append(deliveries,
                          [no |-> Len(published),
                           conversation_id |-> published[Len(published)],
                           to |-> Head(emitting.queue)])
  /\ emitting' = [emitting EXCEPT !.queue = Tail(emitting.queue)]
  /\ UNCHANGED <<busListeners, subs, published>>

\* emit() returns to emitAgentMessage, which returns to the agent task.
EmitReturns ==
  /\ emitting.active
  /\ emitting.queue = <<>>
  /\ emitting' = NotEmitting
  /\ UNCHANGED <<busListeners, subs, published, deliveries>>

(***************************************************************************)
(* The specifications.                                                     *)
(***************************************************************************)
\* the state of the connector and of the channel manager
\* ---------------------------------------------------------------------
\* ActionExecutor: the routing of the message of an authorized user, once
\* the session is there (the last part of handleIncomingMessage), and
\* executeAction.
\* ---------------------------------------------------------------------
VARIABLES inMsg, routing

varsClassify == <<inMsg, routing>>

\* the names registerActions() has put into the registry, of which the
\* model keeps two
actionRegistry == {"session.new", "help.show"}

\* message.action: undefined ("none") or an object with a name
ActionInputs == {"none", "session.new", "help.show", "bogus"}

ContentTypes == {"action", "text", "command", "photo"}

TextInputs == {"", "hello", "help.show", "bogus"}

HandlerOutcomes == {"returns", "throws"}

Messages == [action : ActionInputs, type : ContentTypes, text : TextInputs]

NoMessage == [action |-> "none", type |-> "none", text |-> ""]

NotRouted == [pc |-> "idle", calls |-> <<>>, ran |-> <<>>, replies |-> <<>>]

InitClassify ==
  /\ inMsg = NoMessage
  /\ routing = NotRouted

\* A variant of the branches that looks at the content before the decoded
\* action.
route_ContentFirst(m) ==
  IF m.type = "action" THEN <<"executeAction", m.text>>
  ELSE IF m.action /= "none" THEN <<"executeAction", m.action>>
  ELSE IF m.type = "text" /\ m.text /= "" THEN <<"handleChatMessage", m.text>>
  ELSE <<"notSupported", "">>

\* The branches of handleIncomingMessage: the call made and its argument.
route(m) ==
  IF m.action /= "none" THEN <<"executeAction", m.action>>
  ELSE IF m.type = "action" THEN <<"executeAction", m.text>>
  ELSE IF m.type = "text" /\ m.text /= "" THEN <<"handleChatMessage", m.text>>
  ELSE <<"notSupported", "">>

\* executeAction(context, actionName, params): the handlers run and the
\* replies sent; the handler of a registered action returns or throws.
executeAction(actionName, handler) ==
  IF actionName \notin actionRegistry
  THEN [ran |-> <<>>, replies |-> <<"Unknown action">>]
  ELSE IF handler = "returns"
  THEN [ran |-> <<actionName>>, replies |-> <<"result">>]
  ELSE [ran |-> <<actionName>>, replies |-> <<"Action failed">>]

\* A message of an authorized user has its session and reaches the routing.
ReceiveMessage(m) ==
  /\ routing.pc = "idle"
  /\ inMsg' = m
  /\ routing' = [NotRouted EXCEPT !.pc = "routing"]

\* The routing: one branch is taken and awaited.
RouteMessage(handler) ==
  /\ routing.pc = "routing"
  /\ LET r == route(inMsg)
         e == executeAction(r[2], handler)
     IN routing' =
          CASE r[1] = "executeAction" ->
                 [pc |-> "idle", calls |-> <<r>>, ran |-> e.ran, replies |-> e.replies]
            [] r[1] = "handleChatMessage" ->
                 [pc |-> "idle", calls |-> <<r>>, ran |-> <<>>, replies |-> <<>>]
            [] OTHER ->
                 [pc |-> "idle", calls |-> <<r>>, ran |-> <<>>,
                  replies |-> <<"not supported">>]
  /\ UNCHANGED inMsg

varsLate == <<varsOverlap, varsTwice, varsConfirm>>

varsAux == <<varsBus, varsClassify, varsLate>>

varsChannels == <<varsConnector, varsDispatch, varsManager, varsAux>>

vars == <<varsPairing, varsThrottle, varsPlugin, varsRouter, varsChannels>>

InitLate == InitOverlap /\ InitTwice /\ InitConfirm

InitAux == InitBus /\ InitClassify /\ InitLate

InitChannels == InitConnector /\ InitDispatch /\ InitManager({TRUE}) /\ InitAux

Init == InitPairing /\ InitThrottle /\ InitPlugin /\ InitRouter({TRUE}) /\ InitChannels

NextPairing ==
  \/ \E u \in Idents : GeneratePairingCode(u) /\ UNCHANGED <<varsThrottle, varsPlugin, varsChannels, varsRouter>>
  \/ \E u \in Idents : RefreshPairingCode(u) /\ UNCHANGED <<varsThrottle, varsPlugin, varsChannels, varsRouter>>
  \/ \E c \in Codes : ApprovePairing(c) /\ UNCHANGED <<varsThrottle, varsPlugin, varsChannels, varsRouter>>
  \/ \E c \in Codes : RejectPairing(c) /\ UNCHANGED <<varsThrottle, varsPlugin, varsChannels, varsRouter>>
  \/ CleanupTick /\ UNCHANGED <<varsThrottle, varsPlugin, varsChannels, varsRouter>>
  \/ \E id \in UserIds : RevokeUser(id)
       /\ UNCHANGED <<varsThrottle, varsPlugin, varsChannels, fk, sessCache, numConvs, handlers, unauthLog>>
  \/ Tick /\ UNCHANGED <<varsThrottle, varsPlugin, varsChannels, varsRouter>>

SpecPairing == Init /\ [][NextPairing]_vars

NextThrottle ==
  \/ OnUpdate /\ UNCHANGED <<varsPairing, varsPlugin, varsChannels, varsRouter>>
  \/ OnInsert /\ UNCHANGED <<varsPairing, varsPlugin, varsChannels, varsRouter>>
  \/ \E c \in 1..MaxEvents : InsertSent(c) /\ UNCHANGED <<varsPairing, varsPlugin, varsChannels, varsRouter>>
  \/ \E c \in 1..MaxEvents : InsertFailed(c) /\ UNCHANGED <<varsPairing, varsPlugin, varsChannels, varsRouter>>
  \/ TimerFires /\ UNCHANGED <<varsPairing, varsPlugin, varsChannels, varsRouter>>
  \/ StreamCompletes /\ UNCHANGED <<varsPairing, varsPlugin, varsChannels, varsRouter>>
  \/ StreamFails /\ UNCHANGED <<varsPairing, varsPlugin, varsChannels, varsRouter>>
  \/ \E i \in 1..(MaxEvents + 1) : EditApplied(i) /\ UNCHANGED <<varsPairing, varsPlugin, varsChannels, varsRouter>>
  \/ \E i \in 1..(MaxEvents + 1) : EditFailed(i) /\ UNCHANGED <<varsPairing, varsPlugin, varsChannels, varsRouter>>
  \/ ClockTick /\ UNCHANGED <<varsPairing, varsPlugin, varsChannels, varsRouter>>

SpecThrottle == Init /\ [][NextThrottle]_vars

NextPlugin ==
  \/ StartPlugin /\ UNCHANGED <<varsPairing, varsThrottle, varsRouter, varsChannels>>
  \/ \E k \in 1..MaxCalls : Initialized(k) /\ UNCHANGED <<varsPairing, varsThrottle, varsRouter, varsChannels>>
  \/ \E k \in 1..MaxCalls, msg \in InitializeErrors : InitializeFails(k, msg)
       /\ UNCHANGED <<varsPairing, varsThrottle, varsRouter, varsChannels>>
  \/ \E k \in 1..MaxCalls : GotMe(k) /\ UNCHANGED <<varsPairing, varsThrottle, varsRouter, varsChannels>>
  \/ \E k \in 1..MaxCalls : PollingStarted(k) /\ UNCHANGED <<varsPairing, varsThrottle, varsRouter, varsChannels>>
  \/ \E k \in 1..MaxCalls, msg \in StartErrors : StartFails(k, msg)
       /\ UNCHANGED <<varsPairing, varsThrottle, varsRouter, varsChannels>>
  \/ StopPlugin /\ UNCHANGED <<varsPairing, varsThrottle, varsRouter, varsChannels>>
  \/ \E k \in 1..MaxCalls : PollingStopped(k) /\ UNCHANGED <<varsPairing, varsThrottle, varsRouter, varsChannels>>
  \/ \E k \in 1..MaxCalls : StopReturned(k) /\ UNCHANGED <<varsPairing, varsThrottle, varsRouter, varsChannels>>

SpecPlugin == Init /\ [][NextPlugin]_vars

\* the calls of the Plugin Manager and a plugin that gives up reconnecting
NextRuntime ==
  \/ NextPlugin
  \/ GivesUp /\ UNCHANGED <<varsPairing, varsThrottle, varsRouter, varsChannels>>

SpecRuntime == Init /\ [][NextRuntime]_vars

\* the choices of a message: the agentType parameter goes with agent.select
NextRouter ==
  \/ \E h \in Handlers, u \in Idents, kind \in MessageKinds :
       \E agent \in AgentParams(kind) :
         Dispatch(h, u, kind, agent)
           /\ UNCHANGED <<varsPairing, varsThrottle, varsPlugin, varsChannels>>
  \/ \E h \in Handlers : PairingShowReturns(h)
       /\ UNCHANGED <<now, users, ret, lastGen, varsThrottle, varsPlugin, varsChannels>>
  \/ \E h \in Handlers, okFlag \in BOOLEAN : RouterConversation(h, okFlag)
       /\ UNCHANGED <<varsPairing, varsThrottle, varsPlugin, varsChannels>>
  \/ \E h \in Handlers, kind \in MessageKinds \ {"start"} :
       \E agent \in AgentParams(kind) :
         RouterCreate(h, kind, agent)
           /\ UNCHANGED <<varsPairing, varsThrottle, varsPlugin, varsChannels>>
  \/ \E h \in Handlers : SessionNewCleared(h)
       /\ UNCHANGED <<varsPairing, varsThrottle, varsPlugin, varsChannels>>
  \/ \E h \in Handlers, okFlag \in BOOLEAN : SessionNewConversation(h, okFlag)
       /\ UNCHANGED <<varsPairing, varsThrottle, varsPlugin, varsChannels>>
  \/ \E h \in Handlers : SessionNewCreate(h)
       /\ UNCHANGED <<varsPairing, varsThrottle, varsPlugin, varsChannels>>
  \/ \E h \in Handlers : AgentSelectCleared(h)
       /\ UNCHANGED <<varsPairing, varsThrottle, varsPlugin, varsChannels>>
  \/ \E c \in Codes : ApprovePairingTables(c)
       /\ UNCHANGED <<ret, varsThrottle, varsPlugin, varsChannels, varsRouter>>
  \/ \E id \in UserIds : RevokeUser(id)
       /\ UNCHANGED <<varsThrottle, varsPlugin, varsChannels, fk, sessCache, numConvs, handlers, unauthLog>>
  \/ CleanupTick /\ UNCHANGED <<varsThrottle, varsPlugin, varsChannels, varsRouter>>

\* the router runs in a build that enforces foreign keys, or in one that
\* does not
InitBuilds == InitPairing /\ InitThrottle /\ InitPlugin /\ InitRouter(BOOLEAN) /\ InitChannels

SpecRouter == InitBuilds /\ [][NextRouter]_vars

\* text messages, pairings and revocations on a manager that initializes,
\* and the cleanup of conversations
NextCleanup ==
  \/ \E h \in Handlers, u \in Idents : Dispatch(h, u, "text", "none")
       /\ UNCHANGED <<varsPairing, varsThrottle, varsPlugin, varsChannels>>
  \/ \E h \in Handlers : PairingShowReturns(h)
       /\ UNCHANGED <<now, users, ret, lastGen, varsThrottle, varsPlugin, varsChannels>>
  \/ \E h \in Handlers, okFlag \in BOOLEAN : RouterConversation(h, okFlag)
       /\ UNCHANGED <<varsPairing, varsThrottle, varsPlugin, varsChannels>>
  \/ \E h \in Handlers : RouterCreate(h, "text", "none")
       /\ UNCHANGED <<varsPairing, varsThrottle, varsPlugin, varsChannels>>
  \/ \E c \in Codes : ApprovePairingTables(c)
       /\ UNCHANGED <<ret, varsThrottle, varsPlugin, varsChannels, varsRouter>>
  \/ \E id \in UserIds : RevokeUser(id)
       /\ UNCHANGED <<varsThrottle, varsPlugin, varsChannels, fk, sessCache, numConvs, handlers, unauthLog>>
  \/ ManagerInitialize
       /\ UNCHANGED <<varsAux, varsPairing, varsThrottle, varsPlugin, varsRouter, varsConnector, varsDispatch>>
  \/ \E ok \in BOOLEAN : LoadPlugin(ok)
       /\ UNCHANGED <<varsAux, varsPairing, varsThrottle, varsPlugin, varsRouter, varsConnector, varsDispatch>>
  \/ InitializeCompletes
       /\ UNCHANGED <<varsAux, varsPairing, varsThrottle, varsPlugin, varsRouter, varsConnector, varsDispatch>>
  \/ \E c \in 1..MaxConvs : CleanupConversation(c)
       /\ UNCHANGED <<varsPairing, varsThrottle, varsPlugin, varsChannels>>

SpecCleanup == Init /\ [][NextCleanup]_vars

\* the router when every message is the pairing.refresh action, the
\* approvals of the desktop application, the sweep and the clock
NextRefresh ==
  \/ \E h \in Handlers, u \in Idents : Dispatch(h, u, "pairing.refresh", "none")
       /\ UNCHANGED <<varsPairing, varsThrottle, varsPlugin, varsChannels>>
  \/ \E h \in Handlers : PairingShowReturns(h)
       /\ UNCHANGED <<now, users, ret, lastGen, varsThrottle, varsPlugin, varsChannels>>
  \/ \E h \in Handlers, okFlag \in BOOLEAN : RouterConversation(h, okFlag)
       /\ UNCHANGED <<varsPairing, varsThrottle, varsPlugin, varsChannels>>
  \/ \E h \in Handlers : RouterCreate(h, "pairing.refresh", "none")
       /\ UNCHANGED <<varsPairing, varsThrottle, varsPlugin, varsChannels>>
  \/ \E c \in Codes : ApprovePairingTables(c)
       /\ UNCHANGED <<ret, varsThrottle, varsPlugin, varsChannels, varsRouter>>
  \/ CleanupTick /\ UNCHANGED <<varsThrottle, varsPlugin, varsChannels, varsRouter>>
  \/ Tick /\ UNCHANGED <<varsThrottle, varsPlugin, varsChannels, varsRouter>>

SpecRefresh == Init /\ [][NextRefresh]_vars

NextConnector ==
  \/ \E hasToken \in BOOLEAN : Initialize(hasToken)
       /\ UNCHANGED <<varsAux, varsPairing, varsThrottle, varsPlugin, varsRouter, varsDispatch, varsManager>>
  \/ \E k \in 1..MaxTasks : InitializeSettles(k)
       /\ UNCHANGED <<varsAux, varsPairing, varsThrottle, varsPlugin, varsRouter, varsDispatch, varsManager>>
  \/ Start /\ UNCHANGED <<varsAux, varsPairing, varsThrottle, varsPlugin, varsRouter, varsDispatch, varsManager>>
  \/ \E k \in 1..MaxTasks : OnStartThrows(k)
       /\ UNCHANGED <<varsAux, varsPairing, varsThrottle, varsPlugin, varsRouter, varsDispatch, varsManager>>
  \/ \E k \in 1..MaxTasks : GetMeReturns(k)
       /\ UNCHANGED <<varsAux, varsPairing, varsThrottle, varsPlugin, varsRouter, varsDispatch, varsManager>>
  \/ \E k \in 1..MaxTasks : GetMeFails(k)
       /\ UNCHANGED <<varsAux, varsPairing, varsThrottle, varsPlugin, varsRouter, varsDispatch, varsManager>>
  \/ \E k \in 1..MaxTasks : BotOnStart(k)
       /\ UNCHANGED <<varsAux, varsPairing, varsThrottle, varsPlugin, varsRouter, varsDispatch, varsManager>>
  \/ \E k \in 1..MaxTasks : PollingReturns(k)
       /\ UNCHANGED <<varsAux, varsPairing, varsThrottle, varsPlugin, varsRouter, varsDispatch, varsManager>>
  \/ \E k \in 1..MaxTasks : BotStartRejects(k)
       /\ UNCHANGED <<varsAux, varsPairing, varsThrottle, varsPlugin, varsRouter, varsDispatch, varsManager>>
  \/ \E b \in Bots : PollingFails(b)
       /\ UNCHANGED <<varsAux, varsPairing, varsThrottle, varsPlugin, varsRouter, varsDispatch, varsManager>>
  \/ \E k \in 1..MaxTasks : BackoffElapsed(k)
       /\ UNCHANGED <<varsAux, varsPairing, varsThrottle, varsPlugin, varsRouter, varsDispatch, varsManager>>
  \/ Stop /\ UNCHANGED <<varsAux, varsPairing, varsThrottle, varsPlugin, varsRouter, varsDispatch, varsManager>>
  \/ \E k \in 1..MaxTasks : BotStopSettles(k)
       /\ UNCHANGED <<varsAux, varsPairing, varsThrottle, varsPlugin, varsRouter, varsDispatch, varsManager>>
  \/ \E k \in 1..MaxTasks : OnStopReturns(k)
       /\ UNCHANGED <<varsAux, varsPairing, varsThrottle, varsPlugin, varsRouter, varsDispatch, varsManager>>

SpecConnector == Init /\ [][NextConnector]_vars

NextDispatch ==
  \/ \E u \in Senders : ReceiveUpdate(u)
       /\ UNCHANGED <<varsAux, varsPairing, varsThrottle, varsPlugin, varsRouter, varsConnector, varsManager>>
  \/ \E k \in 1..MaxUpdates : HandlerReturns(k)
       /\ UNCHANGED <<varsAux, varsPairing, varsThrottle, varsPlugin, varsRouter, varsConnector, varsManager>>
  \/ \E k \in 1..MaxUpdates, inChat \in BOOLEAN : HandlerThrows(k, inChat)
       /\ UNCHANGED <<varsAux, varsPairing, varsThrottle, varsPlugin, varsRouter, varsConnector, varsManager>>
  \/ \E k \in 1..MaxUpdates, sent \in BOOLEAN : ChatCatchSettles(k, sent)
       /\ UNCHANGED <<varsAux, varsPairing, varsThrottle, varsPlugin, varsRouter, varsConnector, varsManager>>
  \/ \E k \in 1..MaxUpdates, sent \in BOOLEAN : CatchSettles(k, sent)
       /\ UNCHANGED <<varsAux, varsPairing, varsThrottle, varsPlugin, varsRouter, varsConnector, varsManager>>

SpecDispatch == Init /\ [][NextDispatch]_vars

NextManager ==
  \/ ManagerInitialize
       /\ UNCHANGED <<varsAux, varsPairing, varsThrottle, varsPlugin, varsRouter, varsConnector, varsDispatch>>
  \/ \E ok \in BOOLEAN : LoadPlugin(ok)
       /\ UNCHANGED <<varsAux, varsPairing, varsThrottle, varsPlugin, varsRouter, varsConnector, varsDispatch>>
  \/ InitializeCompletes
       /\ UNCHANGED <<varsAux, varsPairing, varsThrottle, varsPlugin, varsRouter, varsConnector, varsDispatch>>
  \/ GetPairingService
       /\ UNCHANGED <<varsAux, varsPairing, varsThrottle, varsPlugin, varsRouter, varsConnector, varsDispatch>>
  \/ ManagerShutdown
       /\ UNCHANGED <<varsAux, varsPairing, varsThrottle, varsPlugin, varsRouter, varsConnector, varsDispatch>>
  \/ \E stopped \in SUBSET PluginIds : StopAllSettles(stopped)
       /\ UNCHANGED <<varsAux, varsPairing, varsThrottle, varsPlugin, varsRouter, varsConnector, varsDispatch>>
  \/ \E ok \in BOOLEAN : ReleaseSettles(ok)
       /\ UNCHANGED <<varsAux, varsPairing, varsThrottle, varsPlugin, varsRouter, varsConnector, varsDispatch>>

\* the stored configs are enabled or not
InitStored ==
  /\ InitPairing /\ InitThrottle /\ InitPlugin /\ InitRouter({TRUE})
  /\ InitConnector /\ InitDispatch /\ InitManager(BOOLEAN) /\ InitAux

SpecManager == InitStored /\ [][NextManager]_vars

NextBus ==
  \/ OnAgentMessage
       /\ UNCHANGED <<varsLate, varsClassify, varsPairing, varsThrottle, varsPlugin, varsRouter, varsConnector, varsDispatch, varsManager>>
  \/ \E g \in ListenerIds : Unsubscribe(g)
       /\ UNCHANGED <<varsLate, varsClassify, varsPairing, varsThrottle, varsPlugin, varsRouter, varsConnector, varsDispatch, varsManager>>
  \/ \E c \in 1..MaxConvs : EmitAgentMessage(c)
       /\ UNCHANGED <<varsLate, varsClassify, varsPairing, varsThrottle, varsPlugin, varsRouter, varsConnector, varsDispatch, varsManager>>
  \/ Deliver
       /\ UNCHANGED <<varsLate, varsClassify, varsPairing, varsThrottle, varsPlugin, varsRouter, varsConnector, varsDispatch, varsManager>>
  \/ EmitReturns
       /\ UNCHANGED <<varsLate, varsClassify, varsPairing, varsThrottle, varsPlugin, varsRouter, varsConnector, varsDispatch, varsManager>>

SpecBus == Init /\ [][NextBus]_vars

NextClassify ==
  \/ \E m \in Messages : ReceiveMessage(m)
       /\ UNCHANGED <<varsLate, varsBus, varsPairing, varsThrottle, varsPlugin, varsRouter, varsConnector, varsDispatch, varsManager>>
  \/ \E handler \in HandlerOutcomes : RouteMessage(handler)
       /\ UNCHANGED <<varsLate, varsBus, varsPairing, varsThrottle, varsPlugin, varsRouter, varsConnector, varsDispatch, varsManager>>

SpecClassify == Init /\ [][NextClassify]_vars

\* what the calls of generatePairingCode leave alone
frameOverlap == <<varsThrottle, varsPlugin, varsRouter, varsConnector, varsDispatch,
                  varsManager, varsBus, varsClassify, varsTwice, varsConfirm>>

NextOverlap ==
  \/ \E k \in GenCallIds, u \in Idents : GenerateStarts(k, u) /\ UNCHANGED frameOverlap
  \/ \E k \in GenCallIds : GenerateResumes(k) /\ UNCHANGED frameOverlap
  \/ \E c \in Codes : RejectPairing(c) /\ UNCHANGED <<frameOverlap, varsOverlap>>
  \/ CleanupTick /\ UNCHANGED <<frameOverlap, varsOverlap>>
  \/ Tick /\ UNCHANGED <<frameOverlap, varsOverlap>>

SpecOverlap == Init /\ [][NextOverlap]_vars

\* what the calls of initialize leave alone
frameTwice == <<varsPairing, varsThrottle, varsPlugin, varsRouter, varsConnector,
                varsDispatch, varsManager, varsBus, varsClassify, varsOverlap,
                varsConfirm>>

NextTwice ==
  \/ \E k \in InitCallIds : InitializeCalled(k) /\ UNCHANGED frameTwice
  \/ \E k \in InitCallIds, ok \in BOOLEAN : StartPluginSettles(k, ok) /\ UNCHANGED frameTwice
  \/ \E k \in InitCallIds : LoopResumes(k) /\ UNCHANGED frameTwice

SpecTwice == Init /\ [][NextTwice]_vars

\* what the confirm callbacks leave alone
frameConfirm == <<varsThrottle, varsPlugin, varsConnector, varsDispatch, varsManager,
                  varsBus, varsClassify, varsOverlap, varsTwice>>

\* the router for text messages, the approvals and revocations of the
\* desktop application, and the confirm callbacks
NextConfirm ==
  \/ \E h \in Handlers, u \in Idents : Dispatch(h, u, "text", "none")
       /\ UNCHANGED <<varsPairing, varsConfirm, frameConfirm>>
  \/ \E h \in Handlers : PairingShowReturns(h)
       /\ UNCHANGED <<now, users, ret, lastGen, varsConfirm, frameConfirm>>
  \/ \E h \in Handlers, okFlag \in BOOLEAN : RouterConversation(h, okFlag)
       /\ UNCHANGED <<varsPairing, varsConfirm, frameConfirm>>
  \/ \E h \in Handlers : RouterCreate(h, "text", "none")
       /\ UNCHANGED <<varsPairing, varsConfirm, frameConfirm>>
  \/ \E c \in Codes : ApprovePairingTables(c)
       /\ UNCHANGED <<ret, varsRouter, varsConfirm, frameConfirm>>
  \/ \E id \in UserIds : RevokeUser(id)
       /\ UNCHANGED <<fk, sessCache, numConvs, handlers, unauthLog, varsConfirm,
                      frameConfirm>>
  \/ \E u \in Idents, callId \in CallIds, wellFormed \in BOOLEAN :
       HandleCallbackQuery(u, callId, wellFormed)
       /\ UNCHANGED <<varsPairing, varsRouter, frameConfirm>>
  \/ ConfirmSettles /\ UNCHANGED <<varsPairing, varsRouter, frameConfirm>>

SpecConfirm == Init /\ [][NextConfirm]_vars

\* the router for the text messages of two persons and the approvals of
\* the desktop application
NextShare ==
  \/ \E h \in Handlers, u \in Persons : Dispatch(h, u, "text", "none")
       /\ UNCHANGED <<varsPairing, varsThrottle, varsPlugin, varsChannels>>
  \/ \E h \in Handlers : PairingShowReturns(h)
       /\ UNCHANGED <<now, users, ret, lastGen, varsThrottle, varsPlugin, varsChannels>>
  \/ \E h \in Handlers, okFlag \in BOOLEAN : RouterConversation(h, okFlag)
       /\ UNCHANGED <<varsPairing, varsThrottle, varsPlugin, varsChannels>>
  \/ \E h \in Handlers : RouterCreate(h, "text", "none")
       /\ UNCHANGED <<varsPairing, varsThrottle, varsPlugin, varsChannels>>
  \/ \E c \in Codes : ApprovePairingTables(c)
       /\ UNCHANGED <<ret, varsThrottle, varsPlugin, varsChannels, varsRouter>>

SpecShare == Init /\ [][NextShare]_vars

(***************************************************************************)
(* Claims on the pairing service (SpecPairing).                            *)
(***************************************************************************)
Terminal(st) == st \in {"approved", "rejected"}

\* C2: once a pairing request's status is approved or rejected it never
\* changes again; cleanup may delete the row but no step rewrites the status.
C2_TerminalStatusFrozen ==
  [][\A c \in Codes :
       (Terminal(pairingCodes[c].status) /\ HasRow(pairingCodes', c))
         => pairingCodes'[c].status = pairingCodes[c].status]_vars

\* The error approvePairing gives for a request of status st, naming it
NamesStatus(err, st) ==
  \/ err = AlreadyError(st)
  \/ st = "expired" /\ err = "Pairing code has expired"

\* C3: approvePairing on a request whose status is approved, rejected or
\* expired returns success=false with an error naming that status, and
\* leaves the request's status and the user table unchanged.
C3_ApproveProcessedRefused ==
  \A c \in Codes :
    pairingCodes[c].status \in {"approved", "rejected", "expired"} =>
      LET r == approvePairing(pairingCodes, users, now, c, newUserId(users))
      IN /\ ~r.ret.success
         /\ NamesStatus(r.ret.error, pairingCodes[c].status)
         /\ r.tbl[c].status = pairingCodes[c].status
         /\ r.users = users

\* A pending request whose expiresAt has passed
ExpiredPending(c) ==
  pairingCodes[c].status = "pending" /\ pairingCodes[c].expiresAt < now

\* C4: a pending request whose expiresAt has passed is never approved,
\* never returned by getPendingRequestForUser and never reused by
\* generatePairingCode, whether or not the cleanup has run: the comparison
\* with the clock is made at the time of the call.
C4_ExpiredPendingUnusable ==
  \A c \in Codes :
    ExpiredPending(c) =>
      /\ LET r == approvePairing(pairingCodes, users, now, c, newUserId(users))
         IN /\ ~r.ret.success
            /\ r.tbl[c].status /= "approved"
            /\ r.users = users
      /\ \A u \in Idents :
           /\ c \notin getPendingRequestForUser(pairingCodes, now, u)
           /\ \A ch \in generateChoices(pairingCodes, now, u) :
                LET g == generatePairingCode(pairingCodes, now, u, ch[1], ch[2])
                IN g.ret.success => g.ret.code /= c

\* C4 witness: generatePairingCode has just given an identity a new request
\* while an expired pending request of the same identity is still a row.
C4_Witness ==
  \E c \in Codes :
    /\ ExpiredPending(c)
    /\ ret.op = "generate" /\ ret.success
    /\ ret.arg = pairingCodes[c].ident
    /\ lastGen[ret.arg].created

\* C5: while the request an identity's generatePairingCode returned is
\* unexpired and has met no approval, rejection or refresh, the identity's
\* next generatePairingCode returns the same code and expiresAt and creates
\* no request.
C5_GenerateIdempotent ==
  \A u \in Idents :
    (lastGen[u] /= NoGen /\ now < lastGen[u].expiresAt) =>
      \A ch \in generateChoices(pairingCodes, now, u) :
        LET g == generatePairingCode(pairingCodes, now, u, ch[1], ch[2])
        IN /\ g.ret.success
           /\ g.ret.code = lastGen[u].code
           /\ g.ret.expiresAt = lastGen[u].expiresAt
           /\ ~g.ret.created
           /\ g.tbl = pairingCodes

\* C5 witness: the second call has returned, reusing the pending request.
C5_Witness ==
  \E u \in Idents :
    /\ ret.op = "generate" /\ ret.arg = u /\ ret.success
    /\ lastGen[u] /= NoGen /\ ~lastGen[u].created
    /\ now < lastGen[u].expiresAt

\* C27: when refreshPairingCode of an identity returns, every request of
\* the identity whose status was pending before the call has status expired
\* and is refused by approvePairing, and the identity has exactly one
\* request of status pending, which carries the returned code, a code none
\* of the earlier pending requests had.
C27_RefreshReplacesPending ==
  \A u \in Idents :
    LET before == {c \in Codes : pairingCodes[c].status = "pending"
                                   /\ pairingCodes[c].ident = u}
        expired == expirePendingOf(pairingCodes, now, u)
    IN \A ch \in generateChoices(expired, now, u) :
         LET g == generatePairingCode(expired, now, u, ch[1], ch[2])
         IN g.ret.success =>
              /\ \A c \in before :
                   /\ g.tbl[c].status = "expired"
                   /\ ~approvePairing(g.tbl, users, now, c, newUserId(users)).ret.success
              /\ {c \in Codes : g.tbl[c].status = "pending" /\ g.tbl[c].ident = u}
                   = {g.ret.code}
              /\ g.ret.code \notin before

\* C28: one run of the sweep deletes the requests whose expiresAt is in the
\* past or whose status is not pending, and only those: every other request
\* is left as it was, and the users and the sessions are not changed.
C28_SweepDeletesExactlyDead ==
  [][CleanupTick =>
       /\ \A c \in Codes :
            IF pairingCodes[c].expiresAt < now \/ pairingCodes[c].status /= "pending"
            THEN pairingCodes'[c] = NoRow
            ELSE pairingCodes'[c] = pairingCodes[c]
       /\ users' = users /\ sessStore' = sessStore /\ sessCache' = sessCache]_vars

\* The sweep has just run at a moment when the table held a request to
\* delete and a pending, unexpired request, which is still there.
C28_Witness ==
  /\ ret = NoRet /\ now > 0
  /\ \E c, d \in Codes :
       /\ pairingCodes[c] = NoRow
       /\ pairingCodes[d].status = "pending" /\ pairingCodes[d].expiresAt > now

\* C31: a generatePairingCode call that does not return the pending
\* request of the identity never hands createPairingRequest a code that is
\* the key of a stored request, whatever the status and the expiry of that
\* request; it fails only when every code is the key of a stored request;
\* and when it succeeds it has stored a new pending request of the identity
\* with expiresAt = now + CODE_EXPIRY_MS.
C31_NeverPersistsStoredCode ==
  \A u \in Idents :
    \A ch \in generateChoices(pairingCodes, now, u) :
      LET r == generatePairingCode(pairingCodes, now, u, ch[1], ch[2])
      IN ~(ch[1] /= 0 /\ pairingCodes[ch[1]].expiresAt > now) =>
           /\ ch[2] /= 0 => ~HasRow(pairingCodes, ch[2])
           /\ ~r.ret.success => \A c \in Codes : HasRow(pairingCodes, c)
           /\ r.ret.success =>
                /\ ~HasRow(pairingCodes, r.ret.code)
                /\ r.tbl[r.ret.code] = [ident |-> u, expiresAt |-> now + CODE_EXPIRY_MS,
                                        status |-> "pending"]

\* C10: no identity ever has more than one ChannelUser, and approving a
\* code that is already approved fails and creates no user.
C10_OneUserPerIdentity ==
  /\ \A u \in Idents : Cardinality(getChannelUserByPlatform(users, u)) <= 1
  /\ \A c \in Codes :
       pairingCodes[c].status = "approved" =>
         LET r == approvePairing(pairingCodes, users, now, c, newUserId(users))
         IN ~r.ret.success /\ r.users = users

\* C10 witness: a second approvePairing of an approved code has returned
\* its failure, with the identity's one user in the table.
C10_Witness ==
  /\ ret.op = "approve" /\ ~ret.success
  /\ ret.error = "Pairing request already approved"
  /\ pairingCodes[ret.arg].status = "approved"
  /\ Cardinality(getChannelUserByPlatform(users, pairingCodes[ret.arg].ident)) = 1
(***************************************************************************)
(* Claims on the streaming throttle (SpecThrottle).                        *)
(***************************************************************************)
Throttled(e) == e.kind \in {"immediate", "deferred"}

\* C6: during one chat stream the throttle never issues more than one edit
\* per throttle window for one platform message: any two edits the throttle
\* makes of the same message id are at least UPDATE_THROTTLE_MS apart.
C6_OneEditPerWindow ==
  \A i, j \in 1..Len(issued) :
    (/\ i < j
     /\ Throttled(issued[i]) /\ Throttled(issued[j])
     /\ issued[i].target = issued[j].target)
      => issued[j].at - issued[i].at >= UPDATE_THROTTLE_MS

\* C6 witness: an immediate edit followed by a deferred edit of the same
\* message, and a third update that arrived inside the window.
C6_Witness ==
  /\ \E i, j \in 1..Len(issued) :
       /\ i < j
       /\ issued[i].kind = "immediate" /\ issued[j].kind = "deferred"
       /\ issued[i].target = issued[j].target
  /\ pendingUpdateTimer /= 0

\* C33: every edit the throttle issues for an update, immediately or from
\* the timer, goes to the platform message that was the last of
\* sentMessageIds when the update was received.
C33_EditGoesToMessageOfItsUpdate ==
  \A i \in 1..Len(issued) :
    issued[i].kind \in {"immediate", "deferred"} =>
      issued[i].target = currentAt[issued[i].content]

\* C34: once the stream has failed and the chat-failure edit is issued, no
\* timer of the throttle is live and no edit of the throttle is issued
\* after the failure edit.
C34_FailureMessageIsLastWrite ==
  \A i \in 1..Len(issued) :
    issued[i].kind = "error" =>
      /\ timers.live = <<>>
      /\ \A j \in (i + 1)..Len(issued) : issued[j].kind \notin {"immediate", "deferred"}

\* C30: while the stream runs the runtime holds at most one live timer of
\* the throttle: an update inside the window leaves the timer it schedules
\* as the only one, an update edited immediately leaves none, and once
\* messageService.sendMessage has resolved (the final edit is issued) none
\* is live.
C30_OneDeferredTimer ==
  /\ [](/\ Len(timers.live) <= 1
        /\ (\E i \in 1..Len(issued) : issued[i].kind = "final") => timers.live = <<>>)
  /\ [][OnUpdate =>
          IF throttleElapsed(clk, lastUpdateTime)
          THEN timers'.live = <<>>
          ELSE timers'.live = <<pendingUpdateTimer'>>]_vars

\* Inside the window of the one edit made so far, an update has replaced
\* the timer of the update before it.
C30_Witness ==
  /\ hpc = "stream"
  /\ Len(issued) = 1
  /\ timers.cleared = 1
  /\ Len(timers.live) = 1 /\ timers.live[1] = pendingUpdateTimer

\* C7: once the stream has completed and its final edit has been applied,
\* the platform message shows the content of the last event with the
\* end-of-stream controls, and no edit of older content is issued or
\* applied after the final edit.
C7_FinalEditWins ==
  /\ \A i \in 1..Len(issued) : issued[i].kind = "final" => i = Len(issued)
  /\ finalApplied =>
       \E i \in 1..Len(issued) :
         /\ issued[i].kind = "final"
         /\ msgs[issued[i].target] =
              [content |-> lastMessageContent, controls |-> TRUE]
(***************************************************************************)
(* Claims on the plugin manager (SpecPlugin).                              *)
(***************************************************************************)
\* The run is: the plugin was started, stopPlugin found it in the map, and
\* startPlugin was called next; every call has returned without an error.
StopThenStartReturned ==
  /\ Len(calls) = 3
  /\ calls[1].kind = "start"
  /\ calls[2].kind = "stop" /\ calls[2].inst /= 0
  /\ calls[3].kind = "start"
  /\ \A k \in 1..3 : calls[k].pc = "done"

\* C8: when stopPlugin(id) is followed at once by startPlugin with the same
\* id, whether the start is issued after the stop has returned or while it
\* is in progress, the outcome is exactly one running instance in the map
\* and exactly one active receive loop.
C8_RestartLeavesOneRunning ==
  StopThenStartReturned =>
    /\ pluginsHas(plugins)
    /\ inst[plugins].status = "running"
    /\ Cardinality({i \in Instances : inst[i].polling}) = 1

\* The call k of startPlugin rejects in this step.
StartPluginRejects(k) ==
  /\ k \in 1..Len(calls)
  /\ calls[k].kind = "start"
  /\ calls[k].pc /= "failed"
  /\ calls'[k].pc = "failed"

\* C11: when initialize or start of the connector throws inside
\* startPlugin, then at the moment startPlugin rejects an error text with
\* the thrown message is cached under the plugin id and is what the status
\* query returns, the persisted status is error, a status-changed event has
\* been emitted, and the plugin id is absent from the runtime map.
C11_StartFailureRecorded ==
  [][\A k \in 1..MaxCalls :
       StartPluginRejects(k) =>
         /\ pluginErrors' /= NoError
         /\ pluginErrors'.message = inst'[calls[k].inst].error
         /\ buildPluginStatus(plugins', inst', pluginErrors', dbStatus').error =
              pluginErrors'.message
         /\ dbStatus' = "error"
         /\ events' = Append(events, "error")
         /\ ~pluginsHas(plugins')]_vars

C37_MapHoldsRunningPlugins ==
  pluginsHas(plugins) =>
    \/ inst[plugins].status = "running"
    \/ /\ inst[plugins].status = "stopping"
       /\ \E k \in 1..Len(calls) :
            calls[k].kind = "stop" /\ calls[k].pc = "botStop" /\ calls[k].inst = plugins

(***************************************************************************)
(* Claims on one plugin instance and its connector (SpecConnector).        *)
(***************************************************************************)

\* the status changes of the lifecycle of BasePlugin, with start() from
\* stopped and stop() from error
Lifecycle ==
  { <<"created", "initializing">>, <<"initializing", "ready">>,
    <<"ready", "starting">>, <<"stopped", "starting">>,
    <<"starting", "running">>, <<"running", "stopping">>,
    <<"error", "stopping">>, <<"stopping", "stopped">>,
    <<"initializing", "error">>, <<"starting", "error">>,
    <<"stopping", "error">> }

\* C12: whatever initialize, start and stop calls are made on a plugin
\* instance, every change of its status is one of the changes of the
\* lifecycle created, initializing, ready, starting, running, stopping,
\* stopped, with error entered only from initializing, starting or stopping.
C12_StatusFollowsLifecycle ==
  [][plugin'.status /= plugin.status =>
       <<plugin.status, plugin'.status>> \in Lifecycle]_vars

\* the step is a call of the method kind, made in the status set sts
CalledIn(kind, sts) ==
  /\ Len(tasks') = Len(tasks) + 1
  /\ tasks'[Len(tasks')].kind = kind
  /\ plugin.status \in sts

\* C13: start() called in a status other than ready or stopped fails and
\* leaves the status, the Bot and its loop as they were, without running
\* onStart; stop() called in a status other than running or error returns
\* and leaves them as they were, without running onStop.
C13_IllegalCallsChangeNothing ==
  [][/\ CalledIn("start", {"created", "initializing", "starting", "running",
                           "stopping", "error"})
          => /\ tasks'[Len(tasks')].pc = "illegal"
             /\ plugin' = plugin /\ grammy' = grammy
     /\ CalledIn("stop", {"created", "initializing", "ready", "starting",
                          "stopping", "stopped"})
          => /\ tasks'[Len(tasks')].pc = "returned"
             /\ plugin' = plugin /\ grammy' = grammy]_vars

\* start() has been refused on a running plugin and stop() has returned at
\* once on a stopped one.
C13_Witness ==
  /\ \E k \in 1..Len(tasks) : tasks[k] = Task("start", "illegal", 0)
  /\ \E k \in 1..Len(tasks) : tasks[k] = Task("stop", "returned", 0)
  /\ plugin.status = "stopped"

\* C14: once a stop() of a running or failed plugin has resolved, and until
\* start() is called again, no Bot of the instance has a receive loop
\* running or being started, whatever was in flight when stop() was called.
\* The instance has been initialized once (newBot = 2).
C14_NoLoopAfterStop ==
  (stopDone /\ newBot = 2) =>
    \A b \in Bots : grammy[b] \notin {"starting", "polling"}

\* C17: when handlePollingError gives up after more than
\* maxReconnectAttempts consecutive failures, the plugin ends in status
\* error with an error message.
C17_GivingUpEndsInError ==
  [][\A k \in 1..MaxTasks :
       (AtPc(k, "handlePollingError", "onStop") /\ tasks'[k].pc = "gaveUp")
         => plugin'.status = "error" /\ plugin'.error /= ""]_vars

(***************************************************************************)
(* Claims on the receive loop and the message handler (SpecDispatch).      *)
(***************************************************************************)

\* C15: the processing of an update by the connector never waits for the
\* handler it started: the loop awaits no invocation that is still running,
\* so the next update is taken while earlier handlers run.
C15_LoopNeverWaitsForHandler ==
  loopWaits /= 0 => invocations[loopWaits].pc \in HandlerSettled

\* The handler of A's message is still running and the handler of B's
\* later message has been started.
C15_Witness ==
  /\ Len(invocations) >= 2
  /\ invocations[1].user = "A" /\ invocations[1].pc = "try"
  /\ invocations[2].user = "B" /\ invocations[2].pc = "try"

\* C16: when an exception is raised in the handler, the handler ends
\* resolved and the user has been sent the failure message.
C16_FailureCaughtAndReported ==
  [][\A k \in 1..MaxUpdates :
       (/\ k \in 1..Len(invocations)
        /\ invocations[k].pc \in {"chatCatch", "catch"}
        /\ invocations'[k].pc \in HandlerSettled)
         => invocations'[k].pc = "resolved" /\ invocations'[k].notified]_vars

(***************************************************************************)
(* Claims on the channel manager (SpecManager).                            *)
(***************************************************************************)

C26_StopAllBestEffort ==
  [][(call.pc = "stopAll" /\ call'.pc /= "stopAll") =>
       /\ call'.pc = "release"
       /\ \A p \in PluginIds :
            (registry[p] /= "none" /\ registry'[p] /= "error") =>
              registry'[p] = "none" /\ cfgs'[p].status = "stopped"]_vars

\* stopAll has resolved after the stop of one plugin failed and the stop
\* of another succeeded.
C26_Witness ==
  /\ call.kind = "shutdown" /\ call.pc = "release"
  /\ \E p, q \in PluginIds :
       /\ registry[p] = "error"
       /\ registry[q] = "none" /\ cfgs[q].status = "stopped"

\* C19: after shutdown() has resolved no plugin is running, the manager is
\* not initialized and holds none of its components.
C19_ShutdownClearsEverything ==
  (lastCall = "shutdown" /\ call = NoCall) =>
    /\ \A p \in PluginIds : registry[p] /= "running"
    /\ ~initialized
    /\ components = 0

\* C20: after shutdown() has resolved no sweep timer of a PairingService
\* remains active.
C20_NoSweepAfterShutdown ==
  (lastCall = "shutdown" /\ call = NoCall) => sweeps = {}

(***************************************************************************)
(* Claims on the message router and the sessions (SpecRouter).             *)
(***************************************************************************)
\* C1: for every user, whatever the interleaving of createSession,
\* createSessionWithConversation, clearSession, the session.new and
\* agent.select handlers and the router's get-or-create step, overlapping
\* calls of one user included, the table of sessions and the cache of the
\* SessionManager each hold at most one session whose userId is the user.
C1_OneSessionPerUser ==
  \A u \in UserIds :
    /\ Cardinality({r \in sessStore : r.userId = u}) <= 1
    /\ Cardinality({k \in UserIds : sessCache[k].userId = u}) <= 1

\* A session that took the place of another one: it is in the table and in
\* the cache, and the ids below its own, in use when it was made, are free
\* again.
C1_Witness ==
  \E u \in UserIds :
    /\ sessCache[u].id > 1
    /\ sessCache[u].userId = u
    /\ sessCache[u] \in sessStore
    /\ \A i \in 1..(sessCache[u].id - 1) : i \in freshSessionIds

\* C9: a message of an identity that is not authorized when it is
\* dispatched makes the router run the pairing-show handler and return,
\* whatever the message is: no session is created, no other handler runs,
\* nothing is sent to the agent.
C9_UnauthorizedOnlyPairingShow ==
  /\ unauthLog \subseteq {"pairing.show"}
  /\ \A h \in Handlers :
       (handlers[h].pc /= "idle" /\ ~handlers[h].auth) =>
         handlers[h].pc = "pairingShow"

\* Messages of an unauthorized identity were handled, one call shows the
\* pairing code still, and a session of an authorized user exists.
C9_Witness ==
  /\ "pairing.show" \in unauthLog
  /\ \E h \in Handlers : handlers[h].pc = "pairingShow"
  /\ sessStore /= {}

\* the sessions of the cache are the rows of the store
CacheEqualsStore ==
  {sessCache[u] : u \in {v \in UserIds : sessCache[v].id /= 0}} = sessStore

\* C36: every step of the Session Registry (a step that does not touch the
\* table of users) taken where the cache holds the rows of the store leaves
\* the cache holding the rows of the store.
C36_CacheMirrorsStore ==
  [][(CacheEqualsStore /\ users' = users) => CacheEqualsStore']_vars

\* C21: when the router resolves the session of an authorized user who
\* has none with a conversation, a conversation is created through the
\* conversation service and the session to come is bound to it; when the
\* creation fails no session is created.
C21_ConversationCreatedForSession ==
  [][\A h \in Handlers :
       handlers[h].pc = "routerConv" =>
         /\ handlers'[h].pc = "routerCreate" =>
              numConvs' = numConvs + 1 /\ handlers'[h].conv = numConvs'
         /\ handlers'[h].pc = "idle" =>
              sessStore' = sessStore /\ sessCache' = sessCache]_vars

\* C23: a user who is not, or no longer, in the table of users has no
\* session, neither in the table of sessions nor in the cache of the
\* SessionManager.
C23_RevokedUserHasNoSession ==
  \A id \in UserIds :
    (\A r \in users : r.id /= id) =>
      /\ sessCache[id].id = 0
      /\ \A r \in sessStore : r.userId /= id

(***************************************************************************)
(* Claims on the cleanup of a conversation (SpecCleanup).                  *)
(***************************************************************************)

\* C22: after cleanupConversation(c) on an initialized manager no session,
\* in the cache of the SessionManager or in the table, is bound to c.
C22_CleanupLeavesNoSessionBound ==
  [][\A c \in 1..MaxConvs :
       CleanupConversation(c) =>
         /\ \A u \in UserIds : sessCache'[u].conv /= c
         /\ \A r \in sessStore' : r.conv /= c]_vars

\* ---------------------------------------------------------------------
\* Claims checked under SpecBus
\* ---------------------------------------------------------------------

\* the listeners that receive event n: subscribed before it was published
\* and not unsubscribed before it was published, in the order of subscription
RECURSIVE Recipients(_, _)
Recipients(n, g) ==
  IF g > MaxListeners THEN <<>>
  ELSE (IF /\ subs[g].reg /= -1 /\ subs[g].reg < n
           /\ (subs[g].unsub = -1 \/ subs[g].unsub >= n)
        THEN <<g>> ELSE <<>>) \o Recipients(n, g + 1)

DeliveriesOf(n) == SelectSeq(deliveries, LAMBDA d : d.no = n)

\* C24: when emitAgentMessage has returned, the event was delivered exactly
\* once to each listener subscribed at the moment of publication, in the
\* order of subscription and with the conversation id attached; a listener
\* whose unsubscribe handle was called before the publication is not among
\* them, the other listeners are.
C24_OrderedFanOutToCurrentListeners ==
  \A n \in 1..Len(published) :
    (n < Len(published) \/ ~emitting.active) =>
      /\ Len(DeliveriesOf(n)) = Len(Recipients(n, 1))
      /\ \A i \in 1..Len(DeliveriesOf(n)) :
           /\ DeliveriesOf(n)[i].to = Recipients(n, 1)[i]
           /\ DeliveriesOf(n)[i].conversation_id = published[n]

\* Two events have been published and delivered; a listener that received
\* the first was unsubscribed before the second, which another listener
\* received.
C24_Witness ==
  /\ Len(published) = 2 /\ ~emitting.active
  /\ \E g, h \in ListenerIds :
       /\ g /= h
       /\ subs[g].unsub = 1
       /\ \E i \in 1..Len(deliveries) : deliveries[i].no = 1 /\ deliveries[i].to = g
       /\ \E i \in 1..Len(deliveries) : deliveries[i].no = 2 /\ deliveries[i].to = h

\* ---------------------------------------------------------------------
\* Claims checked under SpecClassify
\* ---------------------------------------------------------------------

\* the message has been routed
Routed == routing.pc = "idle" /\ inMsg /= NoMessage

\* C29: the routing of a message makes exactly one call: executeAction with
\* the name of the decoded action if there is one; else executeAction with
\* the text if the content is of type action; else handleChatMessage if the
\* content is a non-empty text; else the 'not supported' reply. A name with
\* no registered handler gives the 'Unknown action' reply and no handler
\* runs.
C29_OneBranchByPriority ==
  Routed =>
    /\ Len(routing.calls) = 1
    /\ inMsg.action /= "none" =>
         routing.calls[1] = <<"executeAction", inMsg.action>>
    /\ inMsg.action = "none" /\ inMsg.type = "action" =>
         routing.calls[1] = <<"executeAction", inMsg.text>>
    /\ inMsg.action = "none" /\ inMsg.type = "text" /\ inMsg.text /= "" =>
         routing.calls[1] = <<"handleChatMessage", inMsg.text>>
    /\ inMsg.action = "none" /\ inMsg.type /= "action"
         /\ (inMsg.type /= "text" \/ inMsg.text = "") =>
         /\ routing.calls[1][1] = "notSupported"
         /\ routing.replies = <<"not supported">>
    /\ routing.calls[1][1] = "executeAction" =>
         IF routing.calls[1][2] \in actionRegistry
         THEN routing.ran = <<routing.calls[1][2]>>
         ELSE routing.ran = <<>> /\ routing.replies = <<"Unknown action">>
    /\ routing.calls[1][1] /= "executeAction" => routing.ran = <<>>

\* A message with a decoded action and a content of type action naming
\* another action has been routed: the handler of the decoded action ran.
C29_Witness ==
  /\ Routed
  /\ inMsg.action = "session.new" /\ inMsg.type = "action" /\ inMsg.text = "help.show"
  /\ routing.ran = <<"session.new">>

\* ---------------------------------------------------------------------
\* Claims checked under SpecRefresh
\* ---------------------------------------------------------------------

\* C32: when the router has answered the pairing.refresh action of an
\* unauthorized identity that held a pending, unexpired request, that
\* request has status expired and the identity has a pending request under
\* another code.
C32_RefreshThroughRouter ==
  [][\A h \in Handlers :
       (handlers[h].pc = "pairingShow" /\ handlers'[h].pc = "idle") =>
         LET u == handlers[h].ident
             old == {c \in getPendingPairingRequests(pairingCodes, now) :
                       pairingCodes[c].ident = u}
         IN old /= {} =>
              /\ \A c \in old : pairingCodes'[c].status = "expired"
              /\ \E d \in Codes \ old :
                   /\ pairingCodes'[d].ident = u
                   /\ pairingCodes'[d].status = "pending"]_vars

\* ---------------------------------------------------------------------
\* Claims checked under SpecOverlap
\* ---------------------------------------------------------------------

C38_OneSetOfComponents ==
  /\ gateway.built <= 1
  /\ \A q \in PluginIds : Cardinality({l \in receiveLoops : l.plugin = q}) <= 1


(***************************************************************************)
(* Claims on the tool confirmations (SpecConfirm).                         *)
(***************************************************************************)
\* C39: a confirm callback is forwarded to the agent only when its sender
\* is an authorized channel user whose current session carries a
\* conversation id, and then to exactly that conversation; in every other
\* case it is dropped without a call of the agent and without a change of
\* any state.
C39_ForwardedOrDroppedUntouched ==
  [][\A u \in Idents, callId \in CallIds :
       HandleCallbackQuery(u, callId, TRUE) =>
         LET found == getChannelUserByPlatform(users, u)
             conv == IF found = {} THEN 0
                     ELSE sessCache[(CHOOSE r \in found : TRUE).id].conv
         IN IF conv /= 0
            THEN confirmed' = Append(confirmed, [conv |-> conv, callId |-> callId])
            ELSE UNCHANGED vars]_vars

(***************************************************************************)
(* Claims on the sessions of two persons (SpecShare).                      *)
(***************************************************************************)
\* C40: at any time no two live sessions of different users are bound to
\* the same conversation id.
C40_NoSharedConversation ==
  \A u1 \in UserIds, u2 \in UserIds :
    (/\ u1 /= u2
     /\ getSession(sessCache, u1).id /= 0
     /\ getSession(sessCache, u2).id /= 0
     /\ getSession(sessCache, u1).conv /= 0)
      => getSession(sessCache, u1).conv /= getSession(sessCache, u2).conv

====
